---- MODULE Spec2Model ----
(***************************************************************************)
(* Model of zcode's change-application pipeline: line diff and hunk        *)
(* extraction (src/diff.rs), reconstruction of a file from accepted hunks  *)
(* (src/file_ops/reconstruct.rs), the atomic writer (src/file_ops/mod.rs), *)
(* the backup set (src/file_ops/backup.rs) and the apply orchestrator      *)
(* (src/file_ops/apply.rs), and of the application loop (src/app.rs):      *)
(* provider detection, prompt execution, the task tracker and the mode     *)
(* machine.                                                                *)
(*                                                                         *)
(* A text (Rust String / &str) is a sequence of one-character strings; NL  *)
(* is the line feed.  Carriage returns are not part of the alphabet.       *)
(***************************************************************************)
EXTENDS Integers, Sequences, FiniteSets, TLC

VARIABLES
    \* --- diff / reconstruct pipeline (pure functions applied step by step)
    original,       \* the original text handed to generate_diff
    proposed,       \* the proposed text handed to generate_diff
    hunks,          \* Vec<Hunk> returned by extract_hunks, statuses edited by review
    recon,          \* reconstruct_file_content(original, hunks)
    reconAcc,       \* reconstruct_file_content(original, Accepted members of hunks)
    dpc,            \* position of the pipeline: "input", "extracted", "reconstructed"
    \* --- apply orchestrator over a file system
    disk,           \* target files: path -> [exists, data]
    backupDir,      \* <cache_dir>/zcode/backups: backup path -> [exists, data]
    disk0,          \* the target files as they were when apply was called
    pending_changes,\* State.pending_changes: path -> FileChange (or NoChange)
    state_hunks,    \* State.hunks: the reviewed hunks of all files
    create_backups, \* config.general.create_backups
    apc,            \* position of the apply call
    arg_hunks,      \* the hunks argument of apply_accepted_hunks
    file_idx,       \* index of the file the current loop is at
    backup_set,     \* BackupSet: [backups: path -> backup path or NoBackup, timestamp]
    files_modified, \* apply_all_files: files written so far
    restore_left,   \* restore_all: mappings not yet visited
    restore_errors, \* restore_all: paths whose restore failed
    apply_error,    \* the error apply_all_files returned
    result,         \* what apply_accepted_hunks returned
    faults,         \* I/O failures injected so far
    \* --- one call of atomic_write, step by step
    aw_pc,          \* the step atomic_write is at
    aw_content,     \* the content argument
    aw_dir_exists,  \* the parent directory of path exists
    aw_target,      \* the file at path: [exists, data]
    aw_temp,        \* the NamedTempFile in the same directory: [exists, data]
    aw_pre,         \* the file at path when atomic_write was called
    aw_result,      \* what atomic_write returned: [ok, step]
    \* --- the application loop (App::run)
    mode,               \* state.mode
    execution_state,    \* state.execution_state
    detection_state,    \* state.detection_state
    pending_detections, \* state.pending_detections: HashSet of provider ids
    available_providers,\* state.available_providers: Vec of ProviderInfo names
    provider,           \* state.provider: the active provider's name, or NoProvider
    prompt_buffer,      \* state.prompt_buffer
    chat_history,       \* state.chat_history.messages
    last_error,         \* state.last_error
    config,             \* state.config.providers: config key -> entry
    pending_tasks,      \* App.pending_tasks: task id -> index into tasks, 0 if absent
    tasks,              \* every task spawned so far, tracked or not
    selected_hunk,      \* state.selected_hunk
    \* --- the key handler of State and the backup sets of one process
    last_apply_result,  \* state.last_apply_result
    now,                \* the wall clock (chrono::Utc::now()), in milliseconds
    backup_sets         \* the BackupSets BackupSet::create returned so far

diffVars == <<original, proposed, hunks, recon, reconAcc, dpc>>

applyVars == <<disk, backupDir, disk0, pending_changes, state_hunks, create_backups,
               apc, arg_hunks, file_idx, backup_set, files_modified, restore_left,
               restore_errors, apply_error, result, faults>>

awVars == <<aw_pc, aw_content, aw_dir_exists, aw_target, aw_temp, aw_pre, aw_result>>

appVars == <<mode, execution_state, detection_state, pending_detections,
             available_providers, provider, prompt_buffer, chat_history, last_error,
             config, pending_tasks, tasks, selected_hunk>>

\* the apply variables the application loop does not own
applyRest == <<disk, backupDir, disk0, create_backups, apc, arg_hunks, file_idx,
               backup_set, files_modified, restore_left, restore_errors, apply_error,
               result, faults>>

keyVars == <<last_apply_result>>

bkVars == <<now, backup_sets>>

vars == <<diffVars, applyVars, awVars, appVars, keyVars, bkVars>>

\* what the actions of one part leave alone
notDiff == <<applyVars, awVars, appVars, keyVars, bkVars>>
notApply == <<diffVars, awVars, appVars, keyVars, bkVars>>
notAw == <<diffVars, applyVars, appVars, keyVars, bkVars>>
notApp == <<diffVars, awVars, applyRest, keyVars, bkVars>>

(***************************************************************************)
(* Bounds                                                                  *)
(***************************************************************************)
MaxLines == 3
MaxFaults == 2
MaxClock == 1

(***************************************************************************)
(* Each specification below drives one part of the program; the variables  *)
(* of the other parts stay parked at these values.                         *)
(***************************************************************************)
DiffParked ==
    /\ original = <<>>
    /\ proposed = <<>>
    /\ hunks = <<>>
    /\ recon = <<>>
    /\ reconAcc = <<>>
    /\ dpc = "parked"

ApplyParked ==
    /\ disk = <<>>
    /\ backupDir = <<>>
    /\ disk0 = <<>>
    /\ pending_changes = <<>>
    /\ state_hunks = <<>>
    /\ create_backups = FALSE
    /\ apc = "parked"
    /\ arg_hunks = <<>>
    /\ file_idx = 0
    /\ backup_set = <<>>
    /\ files_modified = <<>>
    /\ restore_left = {}
    /\ restore_errors = {}
    /\ apply_error = <<>>
    /\ result = <<>>
    /\ faults = 0

AwParked ==
    /\ aw_pc = "parked"
    /\ aw_content = <<>>
    /\ aw_dir_exists = FALSE
    /\ aw_target = <<>>
    /\ aw_temp = <<>>
    /\ aw_pre = <<>>
    /\ aw_result = <<>>

AppParked ==
    /\ mode = "parked"
    /\ execution_state = ""
    /\ detection_state = ""
    /\ pending_detections = {}
    /\ available_providers = <<>>
    /\ provider = ""
    /\ prompt_buffer = <<>>
    /\ chat_history = <<>>
    /\ last_error = <<>>
    /\ config = <<>>
    /\ pending_tasks = <<>>
    /\ tasks = <<>>
    /\ selected_hunk = 0
    /\ last_apply_result = <<>>

BkParked ==
    /\ now = 0
    /\ backup_sets = <<>>

\* the apply variables while the application loop runs
ApplyRestParked ==
    /\ disk = <<>>
    /\ backupDir = <<>>
    /\ disk0 = <<>>
    /\ create_backups = FALSE
    /\ apc = "parked"
    /\ arg_hunks = <<>>
    /\ file_idx = 0
    /\ backup_set = <<>>
    /\ files_modified = <<>>
    /\ restore_left = {}
    /\ restore_errors = {}
    /\ apply_error = <<>>
    /\ result = <<>>
    /\ faults = 0

(***************************************************************************)
(* Generic helpers                                                         *)
(***************************************************************************)
NL == "\n"

Max(a, b) == IF a >= b THEN a ELSE b
Min(a, b) == IF a <= b THEN a ELSE b

RECURSIVE Rep(_, _)
Rep(x, k) == IF k <= 0 THEN <<>> ELSE <<x>> \o Rep(x, k - 1)

Drop(s, k) == SubSeq(s, k + 1, Len(s))
Take(s, k) == SubSeq(s, 1, k)

\* Option<usize>
Some(v) == [some |-> TRUE, v |-> v]
None == [some |-> FALSE, v |-> 0]

\* Vec::remove(idx) and Vec::insert(idx, x), idx 0-based
VecRemove(s, idx) == Take(s, idx) \o Drop(s, idx + 1)
VecInsert(s, idx, x) == Take(s, idx) \o <<x>> \o Drop(s, idx)

(***************************************************************************)
(* Text <-> lines conversions                                              *)
(***************************************************************************)
\* str::lines(): lines without their terminator; a final terminator yields
\* no extra empty line.
RECURSIVE StrLinesFrom(_, _)
StrLinesFrom(t, cur) ==
    IF t = <<>> THEN (IF cur = <<>> THEN <<>> ELSE <<cur>>)
    ELSE IF Head(t) = NL THEN <<cur>> \o StrLinesFrom(Tail(t), <<>>)
    ELSE StrLinesFrom(Tail(t), Append(cur, Head(t)))

StrLines(t) == StrLinesFrom(t, <<>>)

\* Vec<String>::join("\n")
RECURSIVE JoinLines(_)
JoinLines(ls) ==
    IF ls = <<>> THEN <<>>
    ELSE IF Len(ls) = 1 THEN ls[1]
    ELSE ls[1] \o <<NL>> \o JoinLines(Tail(ls))

\* The tokens TextDiff::diff_lines compares: each line WITH its terminator.
RECURSIVE SplitLinesFrom(_, _)
SplitLinesFrom(t, cur) ==
    IF t = <<>> THEN (IF cur = <<>> THEN <<>> ELSE <<cur>>)
    ELSE IF Head(t) = NL THEN <<Append(cur, NL)>> \o SplitLinesFrom(Tail(t), <<>>)
    ELSE SplitLinesFrom(Tail(t), Append(cur, Head(t)))

SplitLines(t) == SplitLinesFrom(t, <<>>)

(***************************************************************************)
(* generate_diff: TextDiff::configure().algorithm(Patience).diff_lines     *)
(*                                                                         *)
(* The diff is computed as a sequence of unit steps "E" (one equal token), *)
(* "D" (one deleted old token), "I" (one inserted new token) and then      *)
(* compacted into DiffOps (Equal / Delete / Insert / Replace) that carry   *)
(* 0-based token indexes, which is the form the library hands out.         *)
(***************************************************************************)
RECURSIVE CommonPrefixLen(_, _)
CommonPrefixLen(o, n) ==
    IF o = <<>> \/ n = <<>> \/ Head(o) # Head(n) THEN 0
    ELSE 1 + CommonPrefixLen(Tail(o), Tail(n))

RECURSIVE CommonSuffixLen(_, _)
CommonSuffixLen(o, n) ==
    IF o = <<>> \/ n = <<>> \/ o[Len(o)] # n[Len(n)] THEN 0
    ELSE 1 + CommonSuffixLen(Take(o, Len(o) - 1), Take(n, Len(n) - 1))

RECURSIVE LcsLen(_, _)
LcsLen(o, n) ==
    IF o = <<>> \/ n = <<>> THEN 0
    ELSE IF Head(o) = Head(n) THEN 1 + LcsLen(Tail(o), Tail(n))
    ELSE Max(LcsLen(Tail(o), n), LcsLen(o, Tail(n)))

\* A shortest edit script of o into n; between equally short scripts the
\* deletion is taken first.
RECURSIVE SesUnits(_, _)
SesUnits(o, n) ==
    IF o = <<>> THEN Rep("I", Len(n))
    ELSE IF n = <<>> THEN Rep("D", Len(o))
    ELSE IF Head(o) = Head(n) THEN <<"E">> \o SesUnits(Tail(o), Tail(n))
    ELSE IF LcsLen(Tail(o), n) >= LcsLen(o, Tail(n))
         THEN <<"D">> \o SesUnits(Tail(o), n)
         ELSE <<"I">> \o SesUnits(o, Tail(n))

\* Myers: common prefix, common suffix, shortest edit script of the middle.
MyersUnits(o, n) ==
    LET p == CommonPrefixLen(o, n)
        o1 == Drop(o, p)
        n1 == Drop(n, p)
        s == CommonSuffixLen(o1, n1)
    IN  Rep("E", p)
        \o SesUnits(Take(o1, Len(o1) - s), Take(n1, Len(n1) - s))
        \o Rep("E", s)

\* Indexes (1-based, ascending) of the tokens that occur exactly once.
UniqueIdx(seq) ==
    SelectSeq([i \in 1..Len(seq) |-> i],
              LAMBDA i: Cardinality({j \in 1..Len(seq) : seq[j] = seq[i]}) = 1)

\* The pairs <<position in a, position in b>> an edit script matches.
RECURSIVE MatchedPairs(_, _, _)
MatchedPairs(units, ai, bi) ==
    IF units = <<>> THEN <<>>
    ELSE IF Head(units) = "E" THEN <<<<ai, bi>>>> \o MatchedPairs(Tail(units), ai + 1, bi + 1)
    ELSE IF Head(units) = "D" THEN MatchedPairs(Tail(units), ai + 1, bi)
    ELSE MatchedPairs(Tail(units), ai, bi + 1)

\* Patience: the unique tokens of both sides are aligned first (Myers over
\* the two lists of unique tokens); the gaps between the anchors, each gap
\* starting at the previous anchor, are then diffed with Myers.
RECURSIVE PatienceFrom(_, _, _, _, _)
PatienceFrom(old, new, oc, nc, anchors) ==
    IF anchors = <<>>
    THEN MyersUnits(SubSeq(old, oc, Len(old)), SubSeq(new, nc, Len(new)))
    ELSE LET a == Head(anchors)
         IN  MyersUnits(SubSeq(old, oc, a[1] - 1), SubSeq(new, nc, a[2] - 1))
             \o PatienceFrom(old, new, a[1], a[2], Tail(anchors))

PatienceUnits(old, new) ==
    LET uo == UniqueIdx(old)
        un == UniqueIdx(new)
        pairs == MatchedPairs(MyersUnits([k \in 1..Len(uo) |-> old[uo[k]]],
                                         [k \in 1..Len(un) |-> new[un[k]]]), 1, 1)
        anchors == [k \in 1..Len(pairs) |-> <<uo[pairs[k][1]], un[pairs[k][2]]>>]
    IN  PatienceFrom(old, new, 1, 1, anchors)

RECURSIVE RunLen(_, _)
\* length of the leading run of units that are (isEq) / are not "E"
RunLen(units, isEq) ==
    IF units = <<>> \/ ((Head(units) = "E") # isEq) THEN 0
    ELSE 1 + RunLen(Tail(units), isEq)

CountOf(units, u) == Cardinality({i \in 1..Len(units) : units[i] = u})

\* Compaction of the unit steps into DiffOps with 0-based indexes: a run of
\* equal steps is one Equal; a run of changes is one Delete, Insert or
\* Replace (all its deletions, then all its insertions).
RECURSIVE UnitsToOps(_, _, _)
UnitsToOps(units, oi, ni) ==
    IF units = <<>> THEN <<>>
    ELSE IF Head(units) = "E"
    THEN LET k == RunLen(units, TRUE)
         IN  <<[tag |-> "Equal", old_index |-> oi, old_len |-> k,
                new_index |-> ni, new_len |-> k]>>
             \o UnitsToOps(Drop(units, k), oi + k, ni + k)
    ELSE LET k == RunLen(units, FALSE)
             d == CountOf(Take(units, k), "D")
             i == CountOf(Take(units, k), "I")
         IN  <<[tag |-> IF d > 0 /\ i > 0 THEN "Replace"
                        ELSE IF d > 0 THEN "Delete" ELSE "Insert",
                old_index |-> oi, old_len |-> d,
                new_index |-> ni, new_len |-> i]>>
             \o UnitsToOps(Drop(units, k), oi + d, ni + i)

generate_diff(orig, prop) ==
    LET old == SplitLines(orig)
        new == SplitLines(prop)
    IN  [old |-> old, new |-> new,
         ops |-> UnitsToOps(PatienceUnits(old, new), 0, 0)]

(***************************************************************************)
(* TextDiff::grouped_ops(n): the ops cut into groups, each change keeping  *)
(* at most n equal tokens of context on either side; a run of more than    *)
(* 2n equal tokens separates two groups.                                   *)
(***************************************************************************)
ContextRadius == 3

TrimFirst(ops, n) ==
    IF ops[1].tag = "Equal"
    THEN LET offset == Max(ops[1].old_len - n, 0)
         IN  [ops EXCEPT ![1] = [@ EXCEPT !.old_index = @ + offset,
                                          !.new_index = @ + offset,
                                          !.old_len = @ - offset,
                                          !.new_len = @ - offset]]
    ELSE ops

TrimLast(ops, n) ==
    IF ops[Len(ops)].tag = "Equal"
    THEN LET cut == Max(ops[Len(ops)].old_len - n, 0)
         IN  [ops EXCEPT ![Len(ops)] = [@ EXCEPT !.old_len = @ - cut,
                                                 !.new_len = @ - cut]]
    ELSE ops

RECURSIVE GroupLoop(_, _, _, _)
GroupLoop(ops, n, pending, rv) ==
    IF ops = <<>>
    THEN IF pending = <<>> \/ (Len(pending) = 1 /\ pending[1].tag = "Equal")
         THEN rv
         ELSE Append(rv, pending)
    ELSE LET op == Head(ops)
         IN  IF op.tag = "Equal" /\ op.old_len > n * 2
             THEN LET offset == Max(op.old_len - n, 0)
                  IN  GroupLoop(Tail(ops), n,
                                <<[op EXCEPT !.old_index = @ + offset,
                                             !.new_index = @ + offset,
                                             !.old_len = @ - offset,
                                             !.new_len = @ - offset]>>,
                                Append(rv, Append(pending,
                                    [op EXCEPT !.old_len = n, !.new_len = n])))
             ELSE GroupLoop(Tail(ops), n, Append(pending, op), rv)

grouped_ops(diff, n) ==
    IF diff.ops = <<>> THEN <<>>
    ELSE GroupLoop(TrimLast(TrimFirst(diff.ops, n), n), n, <<>>, <<>>)

\* TextDiff::iter_changes(op): one Change per token of the op, with the
\* library's 0-based old_index / new_index and the token (terminator
\* included) as value; a Replace yields its deletions, then its insertions.
DeleteChanges(diff, op) ==
    [k \in 1..op.old_len |->
        [tag |-> "Delete", value |-> diff.old[op.old_index + k],
         old_index |-> Some(op.old_index + k - 1), new_index |-> None]]

InsertChanges(diff, op) ==
    [k \in 1..op.new_len |->
        [tag |-> "Insert", value |-> diff.new[op.new_index + k],
         old_index |-> None, new_index |-> Some(op.new_index + k - 1)]]

iter_changes(diff, op) ==
    IF op.tag = "Equal"
    THEN [k \in 1..op.old_len |->
            [tag |-> "Equal", value |-> diff.old[op.old_index + k],
             old_index |-> Some(op.old_index + k - 1),
             new_index |-> Some(op.new_index + k - 1)]]
    ELSE IF op.tag = "Delete" THEN DeleteChanges(diff, op)
    ELSE IF op.tag = "Insert" THEN InsertChanges(diff, op)
    ELSE DeleteChanges(diff, op) \o InsertChanges(diff, op)

(***************************************************************************)
(* extract_hunks (src/diff.rs)                                             *)
(***************************************************************************)
RECURSIVE GroupChanges(_, _)
GroupChanges(diff, ops) ==
    IF ops = <<>> THEN <<>>
    ELSE iter_changes(diff, Head(ops)) \o GroupChanges(diff, Tail(ops))

LineChangeOf(change) ==
    [tag |-> change.tag, content |-> change.value,
     old_line_num |-> change.old_index, new_line_num |-> change.new_index]

\* start_line / end_line as the loop leaves them: each change that has an
\* old (new) index overwrites start_line (end_line).
RECURSIVE LastIndex(_, _, _)
LastIndex(changes, field, cur) ==
    IF changes = <<>> THEN cur
    ELSE LastIndex(Tail(changes), field,
                   IF Head(changes)[field].some THEN Head(changes)[field].v ELSE cur)

HunkOf(file_path, diff, hunk_idx, ops) ==
    LET cs == GroupChanges(diff, ops)
    IN  [id |-> hunk_idx, file_path |-> file_path,
         start_line |-> LastIndex(cs, "old_index", 0),
         end_line |-> LastIndex(cs, "new_index", 0),
         changes |-> [k \in 1..Len(cs) |-> LineChangeOf(cs[k])],
         status |-> "Pending"]

HunksOfGroups(file_path, diff, groups) ==
    LET all == [g \in 1..Len(groups) |-> HunkOf(file_path, diff, g - 1, groups[g])]
    IN  SelectSeq(all, LAMBDA h: h.changes # <<>>)

\* extract_hunks walking diff.ops() as one group instead of grouped_ops(3)
extract_hunks_ungrouped(file_path, diff) ==
    HunksOfGroups(file_path, diff, <<diff.ops>>)

extract_hunks(file_path, diff) ==
    HunksOfGroups(file_path, diff, grouped_ops(diff, ContextRadius))

(***************************************************************************)
(* reconstruct_file_content / apply_hunk (src/file_ops/reconstruct.rs)     *)
(***************************************************************************)
Insertions(hunk) ==
    LET ins == SelectSeq(hunk.changes, LAMBDA c: c.tag = "Insert")
    IN  [k \in 1..Len(ins) |-> ins[k].content]

Deletions(hunk) ==
    LET del == SelectSeq(hunk.changes, LAMBDA c: c.tag = "Delete")
    IN  [k \in 1..Len(del) |->
            IF del[k].old_line_num.some THEN del[k].old_line_num.v ELSE 0]

\* deletions.iter().rev(): remove line old_line_num - 1 when in range
RECURSIVE ApplyDeletions(_, _)
ApplyDeletions(lines, dels) ==
    IF dels = <<>> THEN lines
    ELSE LET n == dels[Len(dels)]
             rest == Take(dels, Len(dels) - 1)
         IN  ApplyDeletions(IF n > 0 /\ n <= Len(lines)
                            THEN VecRemove(lines, n - 1) ELSE lines, rest)

InsertPos(lines, hunk) ==
    Min(IF hunk.start_line > 0 THEN hunk.start_line - 1
        ELSE IF lines = <<>> THEN 0
        ELSE Len(lines),
        Len(lines))

RECURSIVE ApplyInsertions(_, _, _)
ApplyInsertions(lines, pos, ins) ==
    IF ins = <<>> THEN lines
    ELSE ApplyInsertions(VecInsert(lines, pos, Head(ins)), pos + 1, Tail(ins))

apply_hunk(lines, hunk) ==
    LET afterDel == ApplyDeletions(lines, Deletions(hunk))
    IN  ApplyInsertions(afterDel, InsertPos(afterDel, hunk), Insertions(hunk))

\* a filter that lets Pending hunks through
IsNotRejected(h) == h.status # "Rejected"

\* h.status == HunkStatus::Accepted
IsAccepted(h) == h.status = "Accepted"

\* sort_by(|a, b| b.start_line.cmp(&a.start_line)): stable, descending
RECURSIVE InsertDesc(_, _)
InsertDesc(sorted, h) ==
    IF sorted = <<>> THEN <<h>>
    ELSE IF Head(sorted).start_line >= h.start_line
         THEN <<Head(sorted)>> \o InsertDesc(Tail(sorted), h)
         ELSE <<h>> \o sorted

RECURSIVE SortByStartDesc(_)
SortByStartDesc(hs) ==
    IF hs = <<>> THEN <<>>
    ELSE InsertDesc(SortByStartDesc(Take(hs, Len(hs) - 1)), hs[Len(hs)])

RECURSIVE ApplyHunks(_, _)
ApplyHunks(lines, hs) ==
    IF hs = <<>> THEN lines
    ELSE ApplyHunks(apply_hunk(lines, Head(hs)), Tail(hs))

reconstruct_file_content(orig, hs) ==
    IF hs = <<>> THEN orig
    ELSE JoinLines(ApplyHunks(StrLines(orig),
                              SortByStartDesc(SelectSeq(hs, IsAccepted))))

(***************************************************************************)
(* The diff / reconstruct pipeline as a state machine: a pair of texts is  *)
(* drawn, diffed and cut into hunks; the review marks hunks Accepted or    *)
(* Rejected; reconstruct_file_content is applied to the result.            *)
(***************************************************************************)
LineAlphabet == {<<"a">>, <<"b">>}

LineSeqs(n) == UNION {[1..k -> LineAlphabet] : k \in 0..n}

\* every text of at most MaxLines lines, with and without a final newline
SmallTexts ==
    {JoinLines(ls) : ls \in LineSeqs(MaxLines)}
    \cup {JoinLines(ls) \o <<NL>> : ls \in LineSeqs(MaxLines)}

\* "1\n2\n3\n4\n5" -> "1\n2a\n3\n4\n5b"
FiveOld == JoinLines(<< <<"1">>, <<"2">>, <<"3">>, <<"4">>, <<"5">> >>)
FiveNew == JoinLines(<< <<"1">>, <<"2", "a">>, <<"3">>, <<"4">>, <<"5", "b">> >>)

\* two changes separated by more than 2 * ContextRadius equal lines
FarOld == JoinLines(<< <<"x">> >> \o Rep(<<"c">>, 2 * ContextRadius + 1) \o << <<"y">> >>)
FarNew == JoinLines(<< <<"X">> >> \o Rep(<<"c">>, 2 * ContextRadius + 1) \o << <<"Y">> >>)

InputPairs ==
    (SmallTexts \X SmallTexts) \cup {<<FiveOld, FiveNew>>, <<FarOld, FarNew>>}

FilePath == "test.txt"

DiffInit ==
    /\ \E pair \in InputPairs : original = pair[1] /\ proposed = pair[2]
    /\ hunks = <<>>
    /\ recon = <<>>
    /\ reconAcc = <<>>
    /\ dpc = "input"
    /\ ApplyParked
    /\ AwParked
    /\ AppParked
    /\ BkParked

\* extract_hunks(path, generate_diff(original, proposed))
Extract ==
    /\ dpc = "input"
    /\ hunks' = extract_hunks(FilePath, generate_diff(original, proposed))
    /\ dpc' = "extracted"
    /\ UNCHANGED <<original, proposed, recon, reconAcc, notDiff>>

\* Action::AcceptCurrent on hunk i
AcceptHunk(i) ==
    /\ dpc = "extracted"
    /\ hunks[i].status # "Accepted"
    /\ hunks' = [hunks EXCEPT ![i].status = "Accepted"]
    /\ UNCHANGED <<original, proposed, recon, reconAcc, dpc, notDiff>>

\* Action::RejectCurrent on hunk i
RejectHunk(i) ==
    /\ dpc = "extracted"
    /\ hunks[i].status # "Rejected"
    /\ hunks' = [hunks EXCEPT ![i].status = "Rejected"]
    /\ UNCHANGED <<original, proposed, recon, reconAcc, dpc, notDiff>>

\* reconstruct_file_content on the reviewed hunks, and on their Accepted
\* members alone (what State::apply_changes hands on)
Reconstruct ==
    /\ dpc = "extracted"
    /\ recon' = reconstruct_file_content(original, hunks)
    /\ reconAcc' = reconstruct_file_content(original, SelectSeq(hunks, IsAccepted))
    /\ dpc' = "reconstructed"
    /\ UNCHANGED <<original, proposed, hunks, notDiff>>

DiffNext ==
    \/ Extract
    \/ \E i \in DOMAIN hunks : AcceptHunk(i)
    \/ \E i \in DOMAIN hunks : RejectHunk(i)
    \/ Reconstruct

SpecDiff == DiffInit /\ [][DiffNext]_vars

(***************************************************************************)
(* File system                                                             *)
(***************************************************************************)
Paths == {"d1/x", "d1/y", "d2/x"}

\* the order of the keys of a BTreeMap<PathBuf, _>
SortedPaths == <<"d1/x", "d1/y", "d2/x">>

\* Path::file_name
file_name(path) == IF path = "d1/y" THEN "y" ELSE "x"

File(data) == [exists |-> TRUE, data |-> data]
NoFile == [exists |-> FALSE, data |-> <<>>]

\* chrono::Utc::now().format("%Y%m%d_%H%M%S_%3f"): one string per millisecond
format_timestamp(ms) == "t" \o ToString(ms)

Timestamps == {format_timestamp(ms) : ms \in 0..MaxClock}

\* BackupSet::backup_path: <backup_dir>/<timestamp>_<file name>
backup_path(original_path, timestamp) == <<timestamp, file_name(original_path)>>

BackupPaths == {backup_path(f, t) : f \in Paths, t \in Timestamps}

NoBackup == <<>>

\* atomic_write as the callers see it: the target holds exactly content, or
\* the call failed and the target is as before
AtomicWrite(files, path, content, ok) ==
    IF ok THEN [files EXCEPT ![path] = File(content)] ELSE files

(***************************************************************************)
(* Inputs of the apply orchestrator                                        *)
(***************************************************************************)
NoChange == [change_type |-> "None", original_content |-> <<>>, proposed_content |-> <<>>]
Modify(o, n) == [change_type |-> "Modify", original_content |-> o, proposed_content |-> n]
Create(n) == [change_type |-> "Create", original_content |-> <<>>, proposed_content |-> n]

\* the changes a provider may propose for a path, and the contents the path
\* may have on disk when apply is called
ChangeMenu(path) ==
    IF path = "d1/x" THEN {NoChange, Modify(<<"a">>, <<"b">>), Modify(FarOld, FarNew)}
    ELSE IF path = "d1/y" THEN {NoChange, Create(<<"a">>)}
    ELSE {NoChange, Modify(<<"a", NL>>, <<"b">>)}

DiskMenu(path, change) ==
    IF change.change_type = "Modify"
    THEN {NoFile, File(change.original_content)}
         \cup (IF path = "d2/x" THEN {File(<<"b", NL, "a">>)} ELSE {})
    ELSE {NoFile, File(<<"b">>)}

Statuses == {"Pending", "Accepted", "Rejected"}

\* the hunks of a change as handle_command_result derives them, with the
\* statuses a review may have left
ReviewedHunks(path, change) ==
    LET hs == IF change.change_type = "None" THEN <<>>
              ELSE extract_hunks(path, generate_diff(change.original_content,
                                                     change.proposed_content))
    IN  {[k \in DOMAIN hs |-> [hs[k] EXCEPT !.status = st[k]]] :
            st \in [DOMAIN hs -> Statuses]}

EmptyBackupSet == [backups |-> [f \in Paths |-> NoBackup], timestamp |-> ""]

NoCause == [op |-> "", path |-> ""]

NoResult == [kind |-> "None", files_modified |-> <<>>, backups_created |-> {},
             hunks_applied |-> 0, message |-> "", cause |-> NoCause,
             restore_failed |-> {}]

OkResult(modified, backups, n) ==
    [NoResult EXCEPT !.kind = "Ok", !.files_modified = modified,
                     !.backups_created = backups, !.hunks_applied = n]

\* an anyhow error: its context message and the I/O operation underneath;
\* no error built by apply_accepted_hunks carries restore failures
ErrResult(message, cause) ==
    [NoResult EXCEPT !.kind = "Err", !.message = message, !.cause = cause]

\* the arguments and the file system apply_accepted_hunks is called with
ApplyInputs ==
    /\ pending_changes \in [Paths -> UNION {ChangeMenu(f) : f \in Paths}]
    /\ \A f \in Paths : pending_changes[f] \in ChangeMenu(f)
    /\ disk \in [Paths -> UNION {DiskMenu(f, pending_changes[f]) : f \in Paths}]
    /\ \A f \in Paths : disk[f] \in DiskMenu(f, pending_changes[f])
    /\ disk0 = disk
    /\ backupDir = [b \in BackupPaths |-> NoFile]
    /\ \E hx \in ReviewedHunks("d1/x", pending_changes["d1/x"]),
          hy \in ReviewedHunks("d1/y", pending_changes["d1/y"]),
          hz \in ReviewedHunks("d2/x", pending_changes["d2/x"]),
          reversed \in BOOLEAN :
            state_hunks = IF reversed THEN hz \o hy \o hx ELSE hx \o hy \o hz
    /\ create_backups \in BOOLEAN
    /\ apc = "idle"
    /\ arg_hunks = <<>>
    /\ file_idx = 0
    /\ backup_set = EmptyBackupSet
    /\ files_modified = <<>>
    /\ restore_left = {}
    /\ restore_errors = {}
    /\ apply_error = NoCause
    /\ result = NoResult
    /\ faults = 0

ApplyInit ==
    /\ ApplyInputs
    /\ DiffParked
    /\ AwParked
    /\ AppParked
    /\ BkParked

(***************************************************************************)
(* apply_accepted_hunks (src/file_ops/apply.rs)                            *)
(***************************************************************************)
accepted_hunks == SelectSeq(arg_hunks, IsAccepted)

\* the accepted hunks not grouped by their file_path
hunks_by_file_ungrouped(path) == accepted_hunks

\* hunks_by_file: the accepted hunks of one path, in argument order
hunks_by_file(path) == SelectSeq(accepted_hunks, LAMBDA h: h.file_path = path)

\* the paths with an accepted hunk in the order the hunks argument names them
files_to_modify_unsorted ==
    LET firstAt(f) == CHOOSE i \in DOMAIN accepted_hunks :
                         /\ accepted_hunks[i].file_path = f
                         /\ \A j \in 1..(i - 1) : accepted_hunks[j].file_path # f
        seen == {accepted_hunks[i].file_path : i \in DOMAIN accepted_hunks}
        order[k \in 0..Cardinality(seen)] ==
            IF k = 0 THEN <<>>
            ELSE LET rest == seen \ {order[k - 1][j] : j \in 1..(k - 1)}
                     nxt == CHOOSE f \in rest : \A g \in rest : firstAt(f) <= firstAt(g)
                 IN  Append(order[k - 1], nxt)
    IN  order[Cardinality(seen)]

\* hunks_by_file.keys(): the paths with an accepted hunk, sorted
files_to_modify == SelectSeq(SortedPaths, LAMBDA f: hunks_by_file(f) # <<>>)

\* an injected I/O failure counts against the budget
FaultAllowed(fault) == fault = "none" \/ faults < MaxFaults
FaultCount(fault) == IF fault = "none" THEN faults ELSE faults + 1

Return(res) ==
    /\ apc' = "returned"
    /\ result' = res

\* lines 29-60: filter, group, and start the backup or the write phase
EnterApply(hs) ==
    /\ arg_hunks' = hs
    /\ IF SelectSeq(hs, IsAccepted) = <<>>
       THEN /\ Return(ErrResult("No accepted hunks to apply", NoCause))
            /\ UNCHANGED <<file_idx, backup_set>>
       ELSE /\ apc' = IF create_backups THEN "backup" ELSE "write"
            /\ file_idx' = 1
            /\ backup_set' = IF create_backups
                             THEN [EmptyBackupSet EXCEPT !.timestamp = format_timestamp(0)]
                             ELSE EmptyBackupSet
            /\ UNCHANGED result
    /\ UNCHANGED <<disk, backupDir, disk0, pending_changes, state_hunks,
                   create_backups, files_modified, restore_left, restore_errors,
                   apply_error, faults, notApply>>

\* apply_accepted_hunks called with the whole hunk list
CallApplyAcceptedHunks ==
    /\ apc = "idle"
    /\ EnterApply(state_hunks)

\* State::apply_changes: fails on no Accepted hunk, else hands the Accepted
\* hunks to apply_accepted_hunks
CallStateApplyChanges ==
    /\ apc = "idle"
    /\ LET accepted == SelectSeq(state_hunks, IsAccepted)
       IN  IF accepted = <<>>
           THEN /\ Return(ErrResult("No accepted hunks to apply", NoCause))
                /\ UNCHANGED <<disk, backupDir, disk0, pending_changes, state_hunks,
                               create_backups, arg_hunks, file_idx, backup_set,
                               files_modified, restore_left, restore_errors,
                               apply_error, faults, notApply>>
           ELSE EnterApply(accepted)

\* the error of BackupSet::create swallowed: apply goes on to the writes
BackupFailureIgnored(file, readOk) ==
    /\ apc' = "write"
    /\ file_idx' = 1
    /\ UNCHANGED <<backup_set, result>>

\* `BackupSet::create(..).context("Failed to create backups")?`
BackupFailed(file, readOk) ==
    /\ Return(ErrResult("Failed to create backups",
                        [op |-> IF readOk THEN "write" ELSE "read", path |-> file]))
    /\ UNCHANGED <<backup_set, file_idx>>

\* BackupSet::create, one iteration of its loop: read the file, write the
\* backup; the first failure aborts apply ("Failed to create backups")
BackupCreateStep(fault) ==
    /\ apc = "backup"
    /\ FaultAllowed(fault)
    /\ LET file == files_to_modify[file_idx]
           readOk == disk[file].exists /\ fault # "read"
           path == backup_path(file, backup_set.timestamp)
           ok == readOk /\ fault # "write"
       IN  /\ fault = "read" => disk[file].exists
           /\ backupDir' = IF readOk
                           THEN AtomicWrite(backupDir, path, disk[file].data, ok)
                           ELSE backupDir
           /\ IF ok
              THEN /\ backup_set' = [backup_set EXCEPT !.backups[file] = path]
                   /\ apc' = IF file_idx = Len(files_to_modify) THEN "write" ELSE "backup"
                   /\ file_idx' = IF file_idx = Len(files_to_modify) THEN 1 ELSE file_idx + 1
                   /\ UNCHANGED result
              ELSE BackupFailed(file, readOk)
    /\ faults' = FaultCount(fault)
    /\ UNCHANGED <<disk, disk0, pending_changes, state_hunks, create_backups,
                   arg_hunks, files_modified, restore_left, restore_errors,
                   apply_error, notApply>>

\* the path's FileChange in pending_changes is a Create
IsCreate(file) == pending_changes[file].change_type = "Create"

\* the push onto files_modified left out
PushModifiedSkipped(file) == files_modified

\* files_modified.push(file_path.clone())
PushModified(file) == Append(files_modified, file)

\* apply_all_files, one iteration of its loop: read (unless Create),
\* reconstruct, atomic_write; the first failure starts the rollback when
\* backups are on, and fails the call ("Failed to apply hunks")
WriteStep(fault) ==
    /\ apc = "write"
    /\ FaultAllowed(fault)
    /\ LET file == files_to_modify[file_idx]
           readOk == IsCreate(file) \/ (disk[file].exists /\ fault # "read")
           prior == IF IsCreate(file) THEN <<>> ELSE disk[file].data
           new_content == reconstruct_file_content(prior, hunks_by_file(file))
           ok == readOk /\ fault # "write"
           cause == [op |-> IF readOk THEN "write" ELSE "read", path |-> file]
       IN  /\ fault = "read" => (~IsCreate(file) /\ disk[file].exists)
           /\ disk' = IF readOk THEN AtomicWrite(disk, file, new_content, ok) ELSE disk
           /\ IF ok
              THEN /\ files_modified' = PushModified(file)
                   /\ IF file_idx = Len(files_to_modify)
                      THEN /\ Return(OkResult(files_modified',
                                     {<<f, backup_set.backups[f]>> :
                                         f \in {g \in Paths : backup_set.backups[g] # NoBackup}},
                                     Len(accepted_hunks)))
                           /\ UNCHANGED file_idx
                      ELSE /\ file_idx' = file_idx + 1
                           /\ UNCHANGED <<apc, result>>
                   /\ UNCHANGED <<restore_left, apply_error>>
              ELSE /\ IF create_backups
                      THEN /\ apc' = "restore"
                           /\ restore_left' = {f \in Paths : backup_set.backups[f] # NoBackup}
                           /\ apply_error' = cause
                           /\ UNCHANGED result
                      ELSE /\ Return(ErrResult("Failed to apply hunks", cause))
                           /\ UNCHANGED <<restore_left, apply_error>>
                   /\ UNCHANGED <<files_modified, file_idx>>
    /\ faults' = FaultCount(fault)
    /\ UNCHANGED <<backupDir, disk0, pending_changes, state_hunks, create_backups,
                   arg_hunks, backup_set, restore_errors, notApply>>

\* restore_all giving up at the first mapping that fails
RestoreStepAbort(file, fault) ==
    /\ apc = "restore"
    /\ file \in restore_left
    /\ FaultAllowed(fault)
    /\ LET path == backup_set.backups[file]
           readOk == backupDir[path].exists /\ fault # "read"
           ok == readOk /\ fault # "write"
       IN  /\ fault = "read" => backupDir[path].exists
           /\ disk' = IF readOk
                      THEN AtomicWrite(disk, file, backupDir[path].data, ok)
                      ELSE disk
           /\ restore_errors' = IF ok THEN restore_errors ELSE restore_errors \cup {file}
           /\ restore_left' = IF ok THEN restore_left \ {file} ELSE {}
    /\ faults' = FaultCount(fault)
    /\ UNCHANGED <<backupDir, disk0, pending_changes, state_hunks, create_backups,
                   apc, arg_hunks, file_idx, backup_set, files_modified,
                   apply_error, result, notApply>>

\* BackupSet::restore_all, one mapping (the HashMap is visited in no
\* particular order): restore_single reads the backup and writes it back;
\* a failure is collected and the loop goes on
RestoreStep(file, fault) ==
    /\ apc = "restore"
    /\ file \in restore_left
    /\ FaultAllowed(fault)
    /\ LET path == backup_set.backups[file]
           readOk == backupDir[path].exists /\ fault # "read"
           ok == readOk /\ fault # "write"
       IN  /\ fault = "read" => backupDir[path].exists
           /\ disk' = IF readOk
                      THEN AtomicWrite(disk, file, backupDir[path].data, ok)
                      ELSE disk
           /\ restore_errors' = IF ok THEN restore_errors ELSE restore_errors \cup {file}
    /\ restore_left' = restore_left \ {file}
    /\ faults' = FaultCount(fault)
    /\ UNCHANGED <<backupDir, disk0, pending_changes, state_hunks, create_backups,
                   apc, arg_hunks, file_idx, backup_set, files_modified,
                   apply_error, result, notApply>>

\* `let _ = backup_set.restore_all();` then `return Err(e).context(...)`:
\* the aggregated restore error is dropped, the apply error is returned
ReturnAfterRestore ==
    /\ apc = "restore"
    /\ restore_left = {}
    /\ Return(ErrResult("Failed to apply hunks", apply_error))
    /\ UNCHANGED <<disk, backupDir, disk0, pending_changes, state_hunks,
                   create_backups, arg_hunks, file_idx, backup_set, files_modified,
                   restore_left, restore_errors, apply_error, faults, notApply>>

Faults == {"none", "read", "write"}

ApplyNext ==
    \/ CallApplyAcceptedHunks
    \/ CallStateApplyChanges
    \/ \E fault \in Faults : BackupCreateStep(fault)
    \/ \E fault \in Faults : WriteStep(fault)
    \/ \E file \in Paths, fault \in Faults : RestoreStep(file, fault)
    \/ ReturnAfterRestore

SpecApply == ApplyInit /\ [][ApplyNext]_vars

(***************************************************************************)
(* atomic_write (src/file_ops/mod.rs), step by step: create_dir_all,       *)
(* NamedTempFile::new_in, write_all, sync_all, persist, directory sync.    *)
(* Every step but the last may fail; a failure drops the NamedTempFile,    *)
(* which removes the temp file.                                            *)
(***************************************************************************)
AwContents == {t \in SmallTexts : Len(t) <= MaxLines}

AwInit ==
    /\ aw_content \in AwContents
    /\ aw_dir_exists \in BOOLEAN
    /\ aw_target \in {NoFile} \cup {File(t) : t \in AwContents}
    /\ aw_target.exists => aw_dir_exists
    /\ aw_pre = aw_target
    /\ aw_temp = NoFile
    /\ aw_pc = "create_dir_all"
    /\ aw_result = [ok |-> FALSE, step |-> ""]
    /\ DiffParked
    /\ ApplyParked
    /\ AppParked
    /\ BkParked

AwFail(step) ==
    /\ aw_pc' = "returned"
    /\ aw_result' = [ok |-> FALSE, step |-> step]
    /\ aw_temp' = NoFile

\* fs::create_dir_all(dir)?
AwCreateDirAll(ok) ==
    /\ aw_pc = "create_dir_all"
    /\ ok \/ ~aw_dir_exists
    /\ IF ok
       THEN /\ aw_dir_exists' = TRUE
            /\ aw_pc' = "new_temp"
            /\ UNCHANGED <<aw_temp, aw_result>>
       ELSE /\ AwFail("create_dir_all")
            /\ UNCHANGED aw_dir_exists
    /\ UNCHANGED <<aw_content, aw_target, aw_pre, notAw>>

\* NamedTempFile::new_in(dir)?
AwNewTemp(ok) ==
    /\ aw_pc = "new_temp"
    /\ IF ok
       THEN /\ aw_temp' = File(<<>>)
            /\ aw_pc' = "write_all"
            /\ UNCHANGED aw_result
       ELSE AwFail("new_temp")
    /\ UNCHANGED <<aw_content, aw_dir_exists, aw_target, aw_pre, notAw>>

\* writing the next n bytes straight into path (what fs::write would do)
AwWriteSomeInPlace(n) ==
    /\ aw_pc = "write_all"
    /\ n <= Len(aw_content) - Len(aw_temp.data)
    /\ aw_target' = File(Take(aw_content, Len(aw_temp.data) + n))
    /\ aw_temp' = File(Take(aw_content, Len(aw_temp.data) + n))
    /\ UNCHANGED <<aw_pc, aw_content, aw_dir_exists, aw_pre, aw_result, notAw>>

\* temp.write_all(content): the next n bytes reach the temp file
AwWriteSome(n) ==
    /\ aw_pc = "write_all"
    /\ n <= Len(aw_content) - Len(aw_temp.data)
    /\ aw_temp' = File(Take(aw_content, Len(aw_temp.data) + n))
    /\ UNCHANGED <<aw_pc, aw_content, aw_dir_exists, aw_target, aw_pre, aw_result, notAw>>

\* write_all returns: all bytes written, or an error part-way
AwWriteAllReturns(ok) ==
    /\ aw_pc = "write_all"
    /\ ok => aw_temp.data = aw_content
    /\ IF ok
       THEN /\ aw_pc' = "sync_all"
            /\ UNCHANGED <<aw_temp, aw_result>>
       ELSE AwFail("write_all")
    /\ UNCHANGED <<aw_content, aw_dir_exists, aw_target, aw_pre, notAw>>

\* temp.as_file().sync_all()?
AwSyncAll(ok) ==
    /\ aw_pc = "sync_all"
    /\ IF ok
       THEN /\ aw_pc' = "persist"
            /\ UNCHANGED <<aw_temp, aw_result>>
       ELSE AwFail("sync_all")
    /\ UNCHANGED <<aw_content, aw_dir_exists, aw_target, aw_pre, notAw>>

\* temp.persist(path)?: the rename puts the temp file at path
AwPersist(ok) ==
    /\ aw_pc = "persist"
    /\ IF ok
       THEN /\ aw_target' = aw_temp
            /\ aw_temp' = NoFile
            /\ aw_pc' = "sync_dir"
            /\ UNCHANGED aw_result
       ELSE /\ AwFail("persist")
            /\ UNCHANGED aw_target
    /\ UNCHANGED <<aw_content, aw_dir_exists, aw_pre, notAw>>

\* the directory sync is best-effort: its failure is ignored; Ok(())
AwSyncDir ==
    /\ aw_pc = "sync_dir"
    /\ aw_pc' = "returned"
    /\ aw_result' = [ok |-> TRUE, step |-> ""]
    /\ UNCHANGED <<aw_content, aw_dir_exists, aw_target, aw_temp, aw_pre, notAw>>

AwNext ==
    \/ \E ok \in BOOLEAN : AwCreateDirAll(ok)
    \/ \E ok \in BOOLEAN : AwNewTemp(ok)
    \/ \E n \in 1..MaxLines : AwWriteSome(n)
    \/ \E ok \in BOOLEAN : AwWriteAllReturns(ok)
    \/ \E ok \in BOOLEAN : AwSyncAll(ok)
    \/ \E ok \in BOOLEAN : AwPersist(ok)
    \/ AwSyncDir

SpecAtomicWrite == AwInit /\ [][AwNext]_vars

(***************************************************************************)
(* The application loop (src/app.rs).  App::run starts provider detection, *)
(* then alternates handling one event (a key or a message) with            *)
(* poll_async_tasks.  The input mode stays Normal: no binding leaves it.   *)
(* Spawned tokio tasks run on their own and finish with an outcome; a task *)
(* whose JoinHandle is dropped keeps running, detached.                    *)
(***************************************************************************)
MaxPrompts == 2
MaxDetectTasks == 4

\* providers_to_check in start_provider_detection, in order
ProvidersToCheck ==
    << [provider_id |-> "claude", display_name |-> "Claude Code", config_key |-> "claude"],
       [provider_id |-> "aider", display_name |-> "Aider", config_key |-> "aider"],
       [provider_id |-> "copilot", display_name |-> "GitHub Copilot CLI", config_key |-> "copilot"],
       [provider_id |-> "kiro", display_name |-> "Kiro CLI", config_key |-> "q"] >>

ConfigKeys == {ProvidersToCheck[i].config_key : i \in DOMAIN ProvidersToCheck}

\* a config entry: "default" (no entry, or enabled with no path), "disabled",
\* or "path" (enabled with an explicit path)
ConfigEntries == {"default", "disabled", "path"}

PromptTaskId == "prompt_execution"
DetectTaskId(provider_id) == "detect_" \o provider_id
TaskIds == {PromptTaskId} \cup {DetectTaskId(ProvidersToCheck[i].provider_id) :
                                   i \in DOMAIN ProvidersToCheck}

NoProvider == [name |-> "", parser |-> ""]

\* create_provider: the parser of the built-in provider of that name
create_provider(name) ==
    [name |-> name,
     parser |-> IF name = "Claude Code" THEN "ClaudeJson"
                ELSE IF name = "Aider" THEN "UnifiedDiff"
                ELSE "CodeBlocks"]

ProviderInfo(display_name, config_key) == [name |-> display_name, config_key |-> config_key]

\* what a provider may write on stdout
StdoutKinds == {"empty", "prose", "json_no_edits", "json_edits", "unified_diff", "code_blocks"}

\* the FileChanges a well-formed output describes
ParsedChanges == [f \in Paths |-> IF f = "d1/x" THEN Modify(<<"a">>, <<"b">>) ELSE NoChange]
NoChanges == [f \in Paths |-> NoChange]

ParseOk(changes) == [ok |-> TRUE, changes |-> changes]
ParseErr == [ok |-> FALSE, changes |-> NoChanges]

\* parse_claude_json: an error unless the output is JSON; the Editing blocks
\* of its result, possibly none
parse_claude_json(stdout) ==
    IF stdout = "json_edits" THEN ParseOk(ParsedChanges)
    ELSE IF stdout = "json_no_edits" THEN ParseOk(NoChanges)
    ELSE ParseErr

\* parse_unified_diff: one change per "--- " header, possibly none; never an error
parse_unified_diff(stdout) ==
    IF stdout = "unified_diff" THEN ParseOk(ParsedChanges) ELSE ParseOk(NoChanges)

\* parse_code_blocks: one change per annotated code block, possibly none;
\* never an error
parse_code_blocks(stdout) ==
    IF stdout = "code_blocks" THEN ParseOk(ParsedChanges) ELSE ParseOk(NoChanges)

\* AIProvider::parse_file_changes of the active provider
parse_file_changes(p, stdout) ==
    IF p.parser = "ClaudeJson" THEN parse_claude_json(stdout)
    ELSE IF p.parser = "UnifiedDiff" THEN parse_unified_diff(stdout)
    ELSE parse_code_blocks(stdout)

\* how a spawned task ends: the process exited (exit code absent when a
\* signal killed it), execute_command returned Err, or the join failed
Exited(code, stdout, stderr) ==
    [kind |-> "exited", exit_code |-> code, stdout |-> stdout, stderr |-> stderr]
ExecError == [kind |-> "exec_error", exit_code |-> None, stdout |-> "", stderr |-> ""]
JoinError == [kind |-> "join_error", exit_code |-> None, stdout |-> "", stderr |-> ""]
NoOutcome == [kind |-> "none", exit_code |-> None, stdout |-> "", stderr |-> ""]

DetectOutcomes ==
    {Exited(Some(0), "prose", ""), Exited(Some(1), "empty", "boom"),
     Exited(None, "empty", ""), ExecError, JoinError}

PromptOutcomes ==
    {Exited(Some(0), k, "") : k \in {"empty", "json_edits", "unified_diff", "code_blocks"}}
        \cup {Exited(Some(1), "prose", "boom"), Exited(None, "empty", "boom"),
              ExecError, JoinError}

Task(id, kind, pinfo) ==
    [id |-> id, kind |-> kind, pinfo |-> pinfo, status |-> "running",
     outcome |-> NoOutcome, handled |-> 0]

\* the CommandResult of a task whose process exited, with the context
\* execute_provider_detection / execute_provider_prompt put in it ("" for a
\* key the context does not hold)
CommandResult(t) ==
    [exit_code |-> t.outcome.exit_code, stdout |-> t.outcome.stdout,
     stderr |-> t.outcome.stderr,
     provider_id |-> IF t.kind = "detect" THEN t.pinfo.provider_id ELSE "",
     display_name |-> t.pinfo.display_name, config_key |-> t.pinfo.config_key,
     request_type |-> IF t.kind = "prompt" THEN "prompt_execution" ELSE ""]

NoPinfo == [provider_id |-> "", display_name |-> "", config_key |-> ""]

ChatMessage(is_user, status) == [is_user |-> is_user, status |-> status]

NoError == [title |-> "", message |-> <<>>]
ErrorDisplay(title, message) == [title |-> title, message |-> message]

\* the state the handlers work on, as one record
AppState ==
    [mode |-> mode, execution_state |-> execution_state,
     detection_state |-> detection_state, pending_detections |-> pending_detections,
     available_providers |-> available_providers, provider |-> provider,
     prompt_buffer |-> prompt_buffer, chat_history |-> chat_history,
     last_error |-> last_error, pending_tasks |-> pending_tasks, tasks |-> tasks,
     pending_changes |-> pending_changes, hunks |-> state_hunks,
     selected_hunk |-> selected_hunk]

SetApp(s) ==
    /\ mode' = s.mode
    /\ execution_state' = s.execution_state
    /\ detection_state' = s.detection_state
    /\ pending_detections' = s.pending_detections
    /\ available_providers' = s.available_providers
    /\ provider' = s.provider
    /\ prompt_buffer' = s.prompt_buffer
    /\ chat_history' = s.chat_history
    /\ last_error' = s.last_error
    /\ pending_tasks' = s.pending_tasks
    /\ tasks' = s.tasks
    /\ pending_changes' = s.pending_changes
    /\ state_hunks' = s.hunks
    /\ selected_hunk' = s.selected_hunk
    /\ UNCHANGED <<config, notApp>>

\* tokio::spawn with the JoinHandle thrown away
SpawnUntracked(s, id, kind, pinfo) ==
    [s EXCEPT !.tasks = Append(@, Task(id, kind, pinfo))]

\* tokio::spawn + pending_tasks.insert(id, task): a handle already stored
\* under id is dropped
Spawn(s, id, kind, pinfo) ==
    [s EXCEPT !.tasks = Append(@, Task(id, kind, pinfo)),
              !.pending_tasks[id] = Len(s.tasks) + 1]

RECURSIVE DetectLoop(_, _)
\* start_provider_detection, the loop over providers_to_check from the i-th
DetectLoop(s, i) ==
    IF i > Len(ProvidersToCheck) THEN s
    ELSE LET p == ProvidersToCheck[i]
             entry == config[p.config_key]
         IN  IF entry = "disabled" THEN DetectLoop(s, i + 1)
             ELSE IF entry = "path"
             THEN DetectLoop([s EXCEPT !.available_providers =
                                 Append(@, ProviderInfo(p.display_name, p.config_key))],
                             i + 1)
             ELSE DetectLoop([Spawn(s, DetectTaskId(p.provider_id), "detect", p)
                                 EXCEPT !.pending_detections = @ \cup {p.provider_id}],
                             i + 1)

\* App::start_provider_detection
start_provider_detection(s) ==
    LET s1 == DetectLoop([s EXCEPT !.available_providers = <<>>,
                                   !.pending_detections = {},
                                   !.detection_state = "InProgress"], 1)
    IN  IF s1.pending_detections = {}
        THEN [s1 EXCEPT !.detection_state = "Completed"]
        ELSE s1

\* App::execute_prompt
execute_prompt(s) ==
    IF s.provider # NoProvider
    THEN [Spawn([s EXCEPT !.chat_history = Append(@, ChatMessage(TRUE, "Pending"))],
                PromptTaskId, "prompt", NoPinfo)
             EXCEPT !.execution_state = "WaitingForResult",
                    !.mode = "Processing"]
    ELSE [s EXCEPT !.last_error = ErrorDisplay("No Provider",
                                               <<"Please select a provider first">>),
                   !.mode = "Error"]

\* pending_detections.remove(provider_id), and Completed once none is left
FinishDetection(s, provider_id) ==
    LET s1 == [s EXCEPT !.pending_detections = @ \ {provider_id}]
    IN  IF s1.pending_detections = {}
        THEN [s1 EXCEPT !.detection_state = "Completed"]
        ELSE s1

\* any exit code counts as a detection
DetectionRan(r) == r.exit_code # None

\* result.exit_code == Some(0)
DetectionSucceeded(r) == r.exit_code = Some(0)

\* the error display without the captured stderr
ProviderErrorDisplayBare(exit_code, stderr) ==
    ErrorDisplay("Provider Error", <<"Command failed (exit ", ToString(exit_code), "): ">>)

\* format!("Command failed (exit {}): {}", exit_code, stderr_str)
ProviderErrorDisplay(exit_code, stderr) ==
    ErrorDisplay("Provider Error",
                 <<"Command failed (exit ", ToString(exit_code), "): ", stderr>>)

\* the parsed changes stored, the mode left as it is
AfterParseOkStays(s, changes) ==
    [s EXCEPT !.pending_changes = changes, !.hunks = <<>>]

\* Ok(changes): pending_changes and hunks cleared, the changes stored, and
\* the mode set to DiffReview
AfterParseOk(s, changes) ==
    [s EXCEPT !.pending_changes = changes, !.hunks = <<>>, !.mode = "DiffReview"]

\* handle_command_result, the request_type = prompt_execution part
PromptResult(s, r) ==
    LET s1 == [s EXCEPT !.execution_state = "Idle"]
    IN  IF r.exit_code = None THEN s1
        ELSE IF r.exit_code.v = 0
        THEN IF s.provider = NoProvider THEN s1
             ELSE LET s2 == [s1 EXCEPT !.chat_history =
                                           Append(@, ChatMessage(FALSE, "Success"))]
                      parsed == parse_file_changes(s.provider, r.stdout)
                  IN  IF parsed.ok
                      THEN AfterParseOk(s2, parsed.changes)
                      ELSE [s2 EXCEPT !.last_error =
                                          ErrorDisplay("Parse Error",
                                              <<"Failed to parse provider output: ">>),
                                      !.mode = "Error"]
        ELSE [s1 EXCEPT !.chat_history = Append(@, ChatMessage(FALSE, "Error")),
                        !.last_error = ProviderErrorDisplay(r.exit_code.v, r.stderr),
                        !.mode = "Error"]

\* App::handle_command_result
handle_command_result(s, r) ==
    LET s1 == IF r.provider_id # "" /\ r.provider_id \in s.pending_detections
              THEN FinishDetection(
                       IF DetectionSucceeded(r)
                       THEN [s EXCEPT !.available_providers =
                                 Append(@, ProviderInfo(r.display_name, r.config_key))]
                       ELSE s,
                       r.provider_id)
              ELSE s
    IN  IF r.request_type = "prompt_execution" THEN PromptResult(s1, r) ELSE s1

\* poll_async_tasks, one completed task: remove the handle, await it, and
\* dispatch on Ok(Ok(result)) / Ok(Err(e)) / Err(join error)
HandleTask(s, id) ==
    LET idx == s.pending_tasks[id]
        t == s.tasks[idx]
        s1 == [s EXCEPT !.pending_tasks[id] = 0,
                        !.tasks[idx] = [@ EXCEPT !.handled = @ + 1,
                                                 !.status = "consumed",
                                                 !.outcome = IF t.kind = "detect"
                                                             THEN @ ELSE NoOutcome]]
    IN  IF t.outcome.kind = "exited" THEN handle_command_result(s1, CommandResult(t))
        ELSE IF t.kind = "detect" THEN FinishDetection(s1, t.pinfo.provider_id)
        ELSE s1

RECURSIVE PollLoop(_, _)
\* poll_async_tasks, the loop over completed_tasks
PollLoop(s, completed_tasks) ==
    IF completed_tasks = <<>> THEN s
    ELSE PollLoop(HandleTask(s, Head(completed_tasks)), Tail(completed_tasks))

RECURSIVE Perms(_)
\* the orders in which a HashMap may yield the ids of a set
Perms(S) ==
    IF S = {} THEN {<<>>}
    ELSE UNION {{<<x>> \o p : p \in Perms(S \ {x})} : x \in S}

\* the tracked tasks whose handle.is_finished()
FinishedTracked ==
    {id \in TaskIds : /\ pending_tasks[id] # 0
                      /\ tasks[pending_tasks[id]].status = "finished"}

CountKind(kind) == Cardinality({i \in DOMAIN tasks : tasks[i].kind = kind})

\* the detection tasks one start_provider_detection spawns
DetectSpawns ==
    Cardinality({i \in DOMAIN ProvidersToCheck :
                    config[ProvidersToCheck[i].config_key] = "default"})

AppInitWith(configs) ==
    /\ config \in configs
    /\ mode = "ProviderSelect"
    /\ execution_state = "Idle"
    /\ detection_state = "NotStarted"
    /\ pending_detections = {}
    /\ available_providers = <<>>
    /\ provider = NoProvider
    /\ prompt_buffer = <<>>
    /\ chat_history = <<>>
    /\ last_error = NoError
    /\ pending_tasks = [id \in TaskIds |-> 0]
    /\ tasks = <<>>
    /\ selected_hunk = 0
    /\ pending_changes = NoChanges
    /\ state_hunks = <<>>
    /\ last_apply_result = NoResult
    /\ ApplyRestParked
    /\ DiffParked
    /\ AwParked
    /\ BkParked

Running == mode # "parked" /\ detection_state # "NotStarted"

\* App::run: start_provider_detection() before the event loop
RunStart ==
    /\ mode # "parked"
    /\ detection_state = "NotStarted"
    /\ SetApp(start_provider_detection(AppState))

\* Message::DetectProviders
MsgDetectProviders ==
    /\ Running
    /\ CountKind("detect") + DetectSpawns <= MaxDetectTasks
    /\ SetApp(start_provider_detection(AppState))

\* the task is the one pending_tasks holds a JoinHandle of
Tracked(i) == pending_tasks[tasks[i].id] = i

\* a spawned task ends, tracked or detached; the output of a detached task
\* goes nowhere
TaskFinish(i, o) ==
    /\ Running
    /\ i \in DOMAIN tasks
    /\ tasks[i].status = "running"
    /\ o \in IF tasks[i].kind = "detect" THEN DetectOutcomes ELSE PromptOutcomes
    /\ SetApp([AppState EXCEPT !.tasks[i].status = "finished",
                               !.tasks[i].outcome = IF Tracked(i) THEN o ELSE NoOutcome])

\* App::poll_async_tasks with at least one finished task
PollAsyncTasks ==
    /\ Running
    /\ FinishedTracked # {}
    /\ \E completed_tasks \in Perms(FinishedTracked) :
          SetApp(PollLoop(AppState, completed_tasks))

\* the keys App::handle_key is explored with
AppKeys == {":", "?", "c", "Enter", "Esc"}

\* App::handle_key followed by handle_message: the Normal keymap first, then
\* handle_command_buffer in CommandMode and handle_prompt_input in every
\* other mode
handle_key(s, key) ==
    IF key = ":" THEN [s EXCEPT !.mode = "CommandMode"]
    ELSE IF key = "?" THEN [s EXCEPT !.mode = "Help"]
    ELSE IF s.mode = "CommandMode"
    THEN IF key \in {"Enter", "Esc"} THEN [s EXCEPT !.mode = "PromptEntry"] ELSE s
    ELSE IF key = "c" THEN [s EXCEPT !.prompt_buffer = Append(@, "c")]
    ELSE IF key = "Enter"
    THEN IF s.prompt_buffer # <<>>
         THEN execute_prompt([s EXCEPT !.prompt_buffer = <<>>])
         ELSE s
    ELSE [s EXCEPT !.prompt_buffer = <<>>, !.mode = "ProviderSelect"]

\* ":" in Normal input mode: Message::SetMode(Mode::CommandMode)
KeySetCommandMode ==
    /\ Running
    /\ SetApp(handle_key(AppState, ":"))

\* "?" in Normal input mode: Message::ToggleHelp
KeyToggleHelp ==
    /\ Running
    /\ SetApp(handle_key(AppState, "?"))

\* handle_prompt_input, KeyCode::Char: a key with no binding, outside CommandMode
KeyChar ==
    /\ Running
    /\ mode # "CommandMode"
    /\ Len(prompt_buffer) < 1
    /\ SetApp(handle_key(AppState, "c"))

\* handle_command_buffer / handle_prompt_input, KeyCode::Enter
KeyEnter ==
    /\ Running
    /\ mode # "CommandMode" => prompt_buffer # <<>>
    /\ (mode # "CommandMode" /\ provider # NoProvider) => CountKind("prompt") < MaxPrompts
    /\ SetApp(handle_key(AppState, "Enter"))

\* handle_command_buffer / handle_prompt_input, KeyCode::Esc
KeyEsc ==
    /\ Running
    /\ SetApp(handle_key(AppState, "Esc"))

\* Message::SelectProvider(idx)
MsgSelectProvider(idx) ==
    /\ Running
    /\ idx < Len(available_providers)
    /\ SetApp([AppState EXCEPT !.provider = create_provider(available_providers[idx + 1].name),
                               !.mode = "PromptEntry"])

\* Message::SubmitPrompt(text)
MsgSubmitPrompt ==
    /\ Running
    /\ provider # NoProvider => CountKind("prompt") < MaxPrompts
    /\ SetApp(execute_prompt(AppState))

\* Message::ApplyChanges
MsgApplyChanges ==
    /\ Running
    /\ SetApp([AppState EXCEPT !.mode = "Confirmation"])

\* the provider configurations the prompt machine is explored under
AppConfigs ==
    {[k \in ConfigKeys |-> IF k = "copilot" THEN "disabled" ELSE "path"],
     [k \in ConfigKeys |-> IF k = "claude" THEN "default"
                           ELSE IF k = "aider" THEN "path" ELSE "disabled"]}

\* the provider configurations detection is explored under
DetectConfigs ==
    {[k \in ConfigKeys |-> "default"],
     [k \in ConfigKeys |-> IF k \in {"claude", "aider"} THEN "default"
                           ELSE IF k = "copilot" THEN "path" ELSE "disabled"]}

AppInit == AppInitWith(AppConfigs)

AppNext ==
    \/ RunStart
    \/ \E i \in 1..(MaxPrompts + 1), o \in DetectOutcomes \cup PromptOutcomes :
          TaskFinish(i, o)
    \/ PollAsyncTasks
    \/ KeySetCommandMode
    \/ KeyToggleHelp
    \/ KeyChar
    \/ KeyEnter
    \/ KeyEsc
    \/ \E idx \in 0..(Len(ProvidersToCheck) - 1) : MsgSelectProvider(idx)
    \/ MsgSubmitPrompt
    \/ MsgApplyChanges

SpecApp == AppInit /\ [][AppNext]_vars

DetectInit == AppInitWith(DetectConfigs)

DetectNext ==
    \/ RunStart
    \/ MsgDetectProviders
    \/ \E i \in 1..MaxDetectTasks, o \in DetectOutcomes : TaskFinish(i, o)
    \/ PollAsyncTasks
    \/ KeySetCommandMode
    \/ KeyToggleHelp
    \/ KeyEsc

SpecDetect == DetectInit /\ [][DetectNext]_vars

(***************************************************************************)
(* The key handler of State (src/state.rs): handle_key_legacy dispatches   *)
(* on the mode to the handlers of src/input/modes and runs the Action they *)
(* return in handle_action.  Action::Confirm calls State::apply_changes,   *)
(* whose steps are those of the apply orchestrator above.                  *)
(***************************************************************************)
\* the keys the handler is explored with; "c" has no binding in any mode
LegacyKeys == {"y", "n", "c", "Enter", "Esc"}

\* ConfirmationHandler::handle_key
ConfirmationHandler(key) ==
    IF key \in {"y", "Enter"} THEN "Confirm"
    ELSE IF key \in {"n", "Esc"} THEN "Deny"
    ELSE "Ignored"

\* Action::Deny that also throws the review away
DenyResultCleared(s) ==
    [s EXCEPT !.mode = "DiffReview", !.hunks = <<>>, !.pending_changes = NoChanges]

\* handle_action, Action::Deny
DenyResult(s) == [s EXCEPT !.mode = "DiffReview"]

\* handle_action, Action::SubmitPrompt(text)
SubmitPromptResult(s, text) ==
    IF text = <<>>
    THEN [s EXCEPT !.last_error = ErrorDisplay("Empty Prompt",
                                               <<"Please enter a prompt text">>),
                   !.mode = "Error"]
    ELSE s

\* handle_action, Action::Confirm after apply_changes returned Ok, with the
\* review left in place
ConfirmOkKeepsReview(s) ==
    [s EXCEPT !.mode = "DiffReview",
              !.last_error = ErrorDisplay("Changes Applied Successfully",
                                 <<"Files have been updated with the accepted hunks">>)]

\* handle_action, Action::Confirm after apply_changes returned Ok
ConfirmOk(s) ==
    [s EXCEPT !.mode = "DiffReview",
              !.hunks = <<>>,
              !.pending_changes = NoChanges,
              !.last_error = ErrorDisplay("Changes Applied Successfully",
                                 <<"Files have been updated with the accepted hunks">>)]

\* handle_action, Action::Confirm after apply_changes returned Err(e), with
\* the mode left alone
ConfirmErrStays(s, e) ==
    [s EXCEPT !.last_error = ErrorDisplay("Failed to Apply Changes", <<e.message>>)]

\* handle_action, Action::Confirm after apply_changes returned Err(e)
ConfirmErr(s, e) ==
    [s EXCEPT !.last_error = ErrorDisplay("Failed to Apply Changes", <<e.message>>),
              !.mode = "Error"]

\* State::handle_key_legacy for every key but the one that confirms;
\* selected_provider_idx stays 0 as "j" is not among the keys
handle_key_legacy(s, key) ==
    IF s.mode = "ProviderSelect"
    THEN IF key = "Enter" /\ 0 < Len(s.available_providers)
         THEN [s EXCEPT !.provider = create_provider(s.available_providers[1].name),
                        !.mode = "PromptEntry"]
         ELSE s
    ELSE IF s.mode \in {"PromptEntry", "ChatHistory"}
    THEN IF key \in {"y", "n", "c"} THEN [s EXCEPT !.prompt_buffer = Append(@, key)]
         ELSE IF key = "Enter"
         THEN SubmitPromptResult([s EXCEPT !.prompt_buffer = <<>>], s.prompt_buffer)
         ELSE [s EXCEPT !.prompt_buffer = <<>>, !.mode = "ProviderSelect"]
    ELSE IF s.mode = "DiffReview"
    THEN IF key = "Enter" THEN [s EXCEPT !.mode = "Confirmation"] ELSE s
    ELSE IF s.mode = "Confirmation"
    THEN IF ConfirmationHandler(key) = "Deny" THEN DenyResult(s) ELSE s
    ELSE IF s.mode = "Help" THEN [s EXCEPT !.mode = "PromptEntry"]
    ELSE IF s.mode = "Error" THEN [s EXCEPT !.last_error = NoError, !.mode = "PromptEntry"]
    ELSE s

\* no call of apply_changes is under way
KeyIdle == mode # "parked" /\ apc \in {"idle", "done"}

\* a key that does not confirm
LegacyKey(key) ==
    /\ KeyIdle
    /\ ~(mode = "Confirmation" /\ ConfirmationHandler(key) = "Confirm")
    /\ (mode = "PromptEntry" /\ key \in {"y", "n", "c"}) => Len(prompt_buffer) < 1
    /\ SetApp(handle_key_legacy(AppState, key))

\* "y" or Enter in Confirmation: Action::Confirm calls self.apply_changes();
\* one call per run is explored
ConfirmKey(key) ==
    /\ mode = "Confirmation"
    /\ ConfirmationHandler(key) = "Confirm"
    /\ CallStateApplyChanges

\* Action::Confirm, the match on what apply_changes returned
ConfirmReturn ==
    /\ mode = "Confirmation"
    /\ apc = "returned"
    /\ apc' = "done"
    /\ LET s == IF result.kind = "Ok" THEN ConfirmOk(AppState)
                ELSE ConfirmErr(AppState, result)
       IN  /\ mode' = s.mode
           /\ state_hunks' = s.hunks
           /\ pending_changes' = s.pending_changes
           /\ last_error' = s.last_error
    /\ last_apply_result' = IF result.kind = "Ok" THEN result ELSE last_apply_result
    /\ UNCHANGED <<diffVars, awVars, bkVars, disk, backupDir, disk0, create_backups,
                   arg_hunks, file_idx, backup_set, files_modified, restore_left,
                   restore_errors, apply_error, result, faults, execution_state,
                   detection_state, pending_detections, available_providers,
                   provider, prompt_buffer, chat_history, config, pending_tasks,
                   tasks, selected_hunk>>

\* a review waiting in DiffReview with Aider selected
KeysInit ==
    /\ ApplyInputs
    /\ mode = "DiffReview"
    /\ execution_state = "Idle"
    /\ detection_state = "Completed"
    /\ pending_detections = {}
    /\ available_providers = <<ProviderInfo("Aider", "aider")>>
    /\ provider = create_provider("Aider")
    /\ prompt_buffer = <<>>
    /\ chat_history = <<>>
    /\ last_error = NoError
    /\ config = [k \in ConfigKeys |-> IF k = "aider" THEN "path" ELSE "disabled"]
    /\ pending_tasks = [id \in TaskIds |-> 0]
    /\ tasks = <<>>
    /\ selected_hunk = 0
    /\ last_apply_result = NoResult
    /\ DiffParked
    /\ AwParked
    /\ BkParked

KeysNext ==
    \/ \E key \in LegacyKeys : LegacyKey(key)
    \/ \E key \in LegacyKeys : ConfirmKey(key)
    \/ \E fault \in Faults : BackupCreateStep(fault)
    \/ \E fault \in Faults : WriteStep(fault)
    \/ \E file \in Paths, fault \in Faults : RestoreStep(file, fault)
    \/ ReturnAfterRestore
    \/ ConfirmReturn

SpecKeys == KeysInit /\ [][KeysNext]_vars

(***************************************************************************)
(* The review keys of DiffReview (src/input/modes/diff_review.rs): the     *)
(* handler names an Action, handle_action hands the navigation and         *)
(* accept / reject actions to DiffReviewHandler::apply_action.             *)
(***************************************************************************)
ReviewKeys == {"j", "k", "g", "G", "a", "r"}

\* DiffReviewHandler::handle_key; Shift+G is bound to Beginning as "g" is
DiffReviewHandler(key) ==
    IF key = "j" THEN "Next"
    ELSE IF key = "k" THEN "Previous"
    ELSE IF key \in {"g", "G"} THEN "Beginning"
    ELSE IF key = "a" THEN "AcceptCurrent"
    ELSE IF key = "r" THEN "RejectCurrent"
    ELSE "Ignored"

\* hunks.get_mut(selected_hunk) with the status set, nothing when out of range
SetCurrent(s, status) ==
    IF s.selected_hunk < Len(s.hunks)
    THEN [s EXCEPT !.hunks[s.selected_hunk + 1].status = status]
    ELSE s

\* DiffReviewHandler::apply_action
apply_action(s, action) ==
    IF action = "Next"
    THEN IF s.selected_hunk < Max(Len(s.hunks) - 1, 0)
         THEN [s EXCEPT !.selected_hunk = @ + 1] ELSE s
    ELSE IF action = "Previous"
    THEN IF s.selected_hunk > 0 THEN [s EXCEPT !.selected_hunk = @ - 1] ELSE s
    ELSE IF action = "AcceptCurrent" THEN SetCurrent(s, "Accepted")
    ELSE IF action = "RejectCurrent" THEN SetCurrent(s, "Rejected")
    ELSE IF action = "Beginning" THEN [s EXCEPT !.selected_hunk = 0]
    ELSE IF action = "End" THEN [s EXCEPT !.selected_hunk = Max(Len(s.hunks) - 1, 0)]
    ELSE s

\* a review key pressed in DiffReview
ReviewKey(key) ==
    /\ KeyIdle
    /\ mode = "DiffReview"
    /\ SetApp(apply_action(AppState, DiffReviewHandler(key)))

ReviewNext ==
    \/ KeysNext
    \/ \E key \in ReviewKeys : ReviewKey(key)

SpecReview == KeysInit /\ [][ReviewNext]_vars

(***************************************************************************)
(* BackupSet::create called several times in one process                   *)
(* (src/file_ops/backup.rs): each call stamps its set with the wall clock  *)
(* formatted to the millisecond, and the clock may or may not have moved   *)
(* on between two calls.                                                   *)
(***************************************************************************)
MaxSets == 2

\* the files arguments create is called with
FileLists == {<<"d1/x">>, <<"d1/y">>, <<"d1/x", "d2/x">>, <<"d2/x", "d1/y", "d1/x">>}

\* what the originals may hold
BkContents == {<<"a">>, <<"b">>}

RECURSIVE CreateLoop(_, _, _)
\* BackupSet::create, the loop from the i-th file: read the file, write its
\* backup, record the mapping; a file that cannot be read fails the call
CreateLoop(files, i, st) ==
    IF i > Len(files) THEN st
    ELSE LET file == files[i]
             path == backup_path(file, st.set.timestamp)
         IN  IF ~disk[file].exists THEN [st EXCEPT !.ok = FALSE]
             ELSE CreateLoop(files, i + 1,
                             [st EXCEPT !.dir = AtomicWrite(@, path, disk[file].data, TRUE),
                                        !.set.backups[file] = path])

\* BackupSet::create(files) at the current time
BackupSetCreate(files) ==
    CreateLoop(files, 1,
               [ok |-> TRUE, dir |-> backupDir,
                set |-> [EmptyBackupSet EXCEPT !.timestamp = format_timestamp(now)]])

\* a millisecond passes
Tick ==
    /\ apc = "backups"
    /\ now < MaxClock
    /\ now' = now + 1
    /\ UNCHANGED <<backup_sets, diffVars, applyVars, awVars, appVars, keyVars>>

\* a call of BackupSet::create; a failed call returns no set and leaves the
\* backups it wrote
BkCreate(files) ==
    /\ apc = "backups"
    /\ Len(backup_sets) < MaxSets
    /\ LET r == BackupSetCreate(files)
       IN  /\ backupDir' = r.dir
           /\ backup_sets' = IF r.ok THEN Append(backup_sets, r.set) ELSE backup_sets
    /\ UNCHANGED <<now, diffVars, awVars, appVars, keyVars, disk, disk0,
                   pending_changes, state_hunks, create_backups, apc, arg_hunks,
                   file_idx, backup_set, files_modified, restore_left, restore_errors,
                   apply_error, result, faults>>

\* an original is rewritten between two calls
BkModify(file, content) ==
    /\ apc = "backups"
    /\ disk[file].exists
    /\ disk[file].data # content
    /\ disk' = [disk EXCEPT ![file] = File(content)]
    /\ UNCHANGED <<now, backup_sets, diffVars, awVars, appVars, keyVars, backupDir,
                   disk0, pending_changes, state_hunks, create_backups, apc,
                   arg_hunks, file_idx, backup_set, files_modified, restore_left,
                   restore_errors, apply_error, result, faults>>

\* the backup files a set names
BackupFilesOf(set) == {set.backups[f] : f \in {g \in Paths : set.backups[g] # NoBackup}}

RECURSIVE CleanupLoop(_, _, _, _)
\* BackupSet::cleanup, the loop from the k-th backup path: a path that
\* exists is removed; the remove_file that fails returns its error at once
CleanupLoop(order, k, fail, dir) ==
    IF k > Len(order) THEN [ok |-> TRUE, dir |-> dir, at |-> 0]
    ELSE IF ~dir[order[k]].exists THEN CleanupLoop(order, k + 1, fail, dir)
    ELSE IF k = fail THEN [ok |-> FALSE, dir |-> dir, at |-> k]
    ELSE CleanupLoop(order, k + 1, fail, [dir EXCEPT ![order[k]] = NoFile])

\* the path of a backup file as an error message shows it
display(path) == path[1] \o "_" \o path[2]

\* a call of BackupSet::cleanup on the i-th set; backup_paths() lists the
\* values of a HashMap, so the order is any; remove_file fails at the
\* fail-th path, or nowhere when fail is 0
BkCleanup(i, order, fail) ==
    /\ apc = "backups"
    /\ order \in Perms(BackupFilesOf(backup_sets[i]))
    /\ fail \in 0..Len(order)
    /\ LET r == CleanupLoop(order, 1, fail, backupDir)
       IN  /\ fail # 0 => ~r.ok
           /\ backupDir' = r.dir
           /\ result' = IF r.ok THEN OkResult(<<>>, {}, 0)
                        ELSE ErrResult("Failed to delete backup",
                                       [op |-> "remove_file",
                                        path |-> display(order[r.at])])
    /\ backup_set' = backup_sets[i]
    /\ UNCHANGED <<now, backup_sets, diffVars, awVars, appVars, keyVars, disk,
                   disk0, pending_changes, state_hunks, create_backups, apc,
                   arg_hunks, file_idx, files_modified, restore_left,
                   restore_errors, apply_error, faults>>

BkInit ==
    /\ disk \in [Paths -> {NoFile} \cup {File(c) : c \in BkContents}]
    /\ disk["d1/x"].exists
    /\ disk0 = disk
    /\ backupDir = [b \in BackupPaths |-> NoFile]
    /\ now = 0
    /\ backup_sets = <<>>
    /\ apc = "backups"
    /\ pending_changes = NoChanges
    /\ state_hunks = <<>>
    /\ create_backups = TRUE
    /\ arg_hunks = <<>>
    /\ file_idx = 0
    /\ backup_set = EmptyBackupSet
    /\ files_modified = <<>>
    /\ restore_left = {}
    /\ restore_errors = {}
    /\ apply_error = NoCause
    /\ result = NoResult
    /\ faults = 0
    /\ DiffParked
    /\ AwParked
    /\ AppParked

BkNext ==
    \/ Tick
    \/ \E files \in FileLists : BkCreate(files)
    \/ \E file \in Paths, content \in BkContents : BkModify(file, content)
    \/ \E i \in DOMAIN backup_sets :
          \E order \in Perms(BackupFilesOf(backup_sets[i])) :
             \E fail \in 0..Len(order) : BkCleanup(i, order, fail)

SpecBackup == BkInit /\ [][BkNext]_vars

(***************************************************************************)
(* Properties of the diff / reconstruct pipeline                           *)
(***************************************************************************)
\* a text without its final newline, if it has one
StripFinalNL(t) ==
    IF t # <<>> /\ t[Len(t)] = NL THEN Take(t, Len(t) - 1) ELSE t

AllAccepted == \A i \in DOMAIN hunks : hunks[i].status = "Accepted"
NoneAccepted == \A i \in DOMAIN hunks : hunks[i].status # "Accepted"

\* C1: diffing original against proposed, accepting every extracted hunk and
\* reconstructing from original gives proposed, up to the final newline.
C1_RoundTrip ==
    (dpc = "reconstructed" /\ AllAccepted)
        => StripFinalNL(recon) = StripFinalNL(proposed)

RECURSIVE Flatten(_)
Flatten(ss) == IF ss = <<>> THEN <<>> ELSE Head(ss) \o Flatten(Tail(ss))

\* the change op belongs to the group of an Accepted hunk
InAcceptedHunk(groups, op) ==
    \E i \in DOMAIN hunks :
        /\ hunks[i].status = "Accepted"
        /\ \E k \in DOMAIN groups[hunks[i].id + 1] :
               groups[hunks[i].id + 1][k] = op

\* proposed inside the regions of the accepted hunks, original elsewhere
SelectiveText ==
    LET diff == generate_diff(original, proposed)
        groups == grouped_ops(diff, ContextRadius)
        piece(op) ==
            IF op.tag # "Equal" /\ InAcceptedHunk(groups, op)
            THEN Flatten(SubSeq(diff.new, op.new_index + 1, op.new_index + op.new_len))
            ELSE Flatten(SubSeq(diff.old, op.old_index + 1, op.old_index + op.old_len))
    IN  Flatten([k \in DOMAIN diff.ops |-> piece(diff.ops[k])])

\* C8: with any subset of the hunks Accepted, reconstruction gives proposed
\* inside the accepted hunks and original elsewhere; the five-line text with
\* lines 2 and 5 changed gives two hunks.
C8_SelectiveReconstruction ==
    /\ dpc = "reconstructed"
         => StripFinalNL(recon) = StripFinalNL(SelectiveText)
    /\ (dpc # "input" /\ original = FiveOld /\ proposed = FiveNew)
         => Len(hunks) = 2

\* C9: reconstruction over H equals reconstruction over the Accepted members
\* of H, and with no Accepted hunk the result is original unchanged.
C9_OnlyAcceptedParticipate ==
    dpc = "reconstructed"
        => /\ recon = reconAcc
           /\ NoneAccepted => recon = original

\* C10: identical original and proposed text give no hunk.
C10_IdenticalNoHunks ==
    (dpc # "input" /\ original = proposed) => hunks = <<>>

C10_Witness ==
    dpc = "extracted" /\ original = proposed /\ Len(SplitLines(original)) >= 2

(***************************************************************************)
(* Properties of atomic_write                                              *)
(***************************************************************************)
\* C5: atomic_write(path, content) either returns ok with path holding
\* exactly content, or returns an error with path as it was, whichever step
\* fails; a partly written content is never at path.
C5_AtomicWriteTwoOutcomes ==
    aw_pc # "parked"
        => /\ aw_target \in {aw_pre, File(aw_content)}
           /\ aw_pc \notin {"sync_dir", "returned"} => aw_target = aw_pre
           /\ aw_pc = "returned"
                => aw_target = IF aw_result.ok THEN File(aw_content) ELSE aw_pre

C5_Witness ==
    /\ aw_pc = "returned"
    /\ ~aw_result.ok
    /\ aw_result.step = "persist"
    /\ aw_pre.exists
    /\ aw_pre # File(aw_content)
    /\ Len(aw_content) >= 2

(***************************************************************************)
(* Properties of the apply orchestrator                                    *)
(***************************************************************************)
StateAccepted(i) == state_hunks[i].status = "Accepted"

\* the paths that have an Accepted hunk
AcceptedPaths == {state_hunks[i].file_path : i \in {j \in DOMAIN state_hunks : StateAccepted(j)}}

\* what apply is to leave at a path: the accepted hunks of the path applied
\* to its content at call time (to the empty text for a Create change)
ExpectedFile(f) ==
    File(reconstruct_file_content(
            IF pending_changes[f].change_type = "Create" THEN <<>> ELSE disk0[f].data,
            SelectSeq(state_hunks,
                      LAMBDA h: h.status = "Accepted" /\ h.file_path = f)))

Returned == apc = "returned"

\* C2: when apply fails with create_backups on, every path with an accepted
\* hunk holds its pre-call content or is named in the returned
\* restore-failure error.
C2_FailureRestoresOrReports ==
    (Returned /\ result.kind = "Err" /\ create_backups)
        => \A f \in AcceptedPaths :
               disk[f] = disk0[f] \/ f \in result.restore_failed

\* C3: when apply succeeds, every path of files_modified holds the
\* reconstruction of its prior content with its accepted hunks.
C3_SuccessContent ==
    (Returned /\ result.kind = "Ok")
        => \A k \in DOMAIN result.files_modified :
               disk[result.files_modified[k]] = ExpectedFile(result.files_modified[k])

C3_Witness ==
    /\ Returned
    /\ result.kind = "Ok"
    /\ Len(result.files_modified) = 3
    /\ \A f \in Paths : disk[f] # disk0[f]
    /\ \E i \in DOMAIN state_hunks : state_hunks[i].status = "Rejected"

\* C4: after apply returns, all target files hold their new content or all
\* hold their pre-call content.
C4_AllOrNothing ==
    Returned
        => \/ \A f \in AcceptedPaths : disk[f] = ExpectedFile(f)
           \/ \A f \in AcceptedPaths : disk[f] = disk0[f]

\* C6: when BackupSet::create fails, apply returns a failure and no target
\* file has been written; the writes start only with every backup made.
C6_BackupFailureWritesNothing ==
    /\ apc = "backup" => disk = disk0
    /\ (Returned /\ result.message = "Failed to create backups")
          => (result.kind = "Err" /\ disk = disk0)
    /\ (create_backups /\ (apc \in {"write", "restore"} \/ result.kind = "Ok"))
          => \A f \in AcceptedPaths :
                /\ backup_set.backups[f] # NoBackup
                /\ backupDir[backup_set.backups[f]].exists

C6_Witness ==
    /\ Returned
    /\ result.message = "Failed to create backups"
    /\ file_idx = 2
    /\ backupDir[backup_path("d1/x", "t0")].exists

\* C7: with no Accepted hunk, apply_accepted_hunks and State::apply_changes
\* return the no-accepted-hunks error, create no backup and write no file.
C7_NoAcceptedHunks ==
    (AcceptedPaths = {} /\ apc # "parked")
        => /\ apc \in {"idle", "returned"}
           /\ disk = disk0
           /\ \A b \in BackupPaths : ~backupDir[b].exists
           /\ Returned
                => (result.kind = "Err" /\ result.message = "No accepted hunks to apply")

C7_Witness ==
    /\ Returned
    /\ AcceptedPaths = {}
    /\ \E i \in DOMAIN state_hunks : state_hunks[i].status = "Pending"
    /\ \E i \in DOMAIN state_hunks : state_hunks[i].status = "Rejected"
    /\ create_backups

PathRank(f) == CHOOSE k \in DOMAIN SortedPaths : SortedPaths[k] = f

Ascending(fs) == \A i, j \in DOMAIN fs : i < j => PathRank(fs[i]) < PathRank(fs[j])

\* C11: the files are written in ascending path order whatever the order of
\* the hunks argument, and on success files_modified lists exactly the paths
\* with an accepted hunk in that order, each once.
C11_SortedPathOrder ==
    /\ apc \in {"write", "restore", "returned"} => Ascending(files_modified)
    /\ apc = "write"
          => \A i \in DOMAIN files_modified :
                 PathRank(files_modified[i]) < PathRank(files_to_modify[file_idx])
    /\ (Returned /\ result.kind = "Ok")
          => /\ Ascending(result.files_modified)
             /\ {result.files_modified[i] : i \in DOMAIN result.files_modified}
                    = AcceptedPaths

C11_Witness ==
    /\ Returned
    /\ result.kind = "Ok"
    /\ result.files_modified = <<"d1/x", "d1/y", "d2/x">>
    /\ arg_hunks[1].file_path = "d2/x"

\* C12: a successful apply changes no file outside files_modified: a file
\* with only Pending or Rejected hunks, or with a pending change and no
\* accepted hunk, keeps its content.
C12_FrameOfSuccess ==
    (Returned /\ result.kind = "Ok")
        => \A f \in Paths :
              (\A i \in DOMAIN result.files_modified : result.files_modified[i] # f)
                  => disk[f] = disk0[f]

C12_Witness ==
    /\ Returned
    /\ result.kind = "Ok"
    /\ disk # disk0
    /\ \E f \in Paths \ AcceptedPaths :
          /\ disk0[f].exists
          /\ pending_changes[f].change_type = "Modify"
          /\ \E i \in DOMAIN state_hunks :
                state_hunks[i].file_path = f /\ state_hunks[i].status = "Pending"

(***************************************************************************)
(* Properties of the application loop                                      *)
(***************************************************************************)
AppRunning == mode # "parked"

\* C13: every registered task whose future completes is handled by
\* poll_async_tasks exactly once, only after it finished, and is no longer
\* tracked once handled: a task never handled twice, a handled task
\* consumed and untracked, and a finished task not yet handled still
\* tracked so that the next poll handles it.
C13_HandledExactlyOnce ==
    AppRunning
        => \A i \in DOMAIN tasks :
              /\ tasks[i].handled <= 1
              /\ tasks[i].handled = 1 => (tasks[i].status = "consumed" /\ ~Tracked(i))
              /\ (tasks[i].status = "finished" /\ tasks[i].handled = 0) => Tracked(i)

\* the detection tasks of the latest start_provider_detection
LatestDetections ==
    LET detects == {i \in DOMAIN tasks : tasks[i].kind = "detect"}
    IN  {i \in detects : Cardinality({j \in detects : j > i}) < DetectSpawns}

\* the providers configured with an explicit path, in providers_to_check order
PathProviders ==
    SelectSeq([i \in DOMAIN ProvidersToCheck |-> ProvidersToCheck[i]],
              LAMBDA p : config[p.config_key] = "path")

Names(ps) == [i \in DOMAIN ps |-> ps[i].name]

\* a poll step in which detection completions are handled
DetectionsPolled ==
    {id \in FinishedTracked : tasks[pending_tasks[id]].kind = "detect"}

PolledSuccesses ==
    {tasks[pending_tasks[id]].pinfo.display_name :
        id \in {d \in DetectionsPolled :
                   tasks[pending_tasks[d]].outcome = Exited(Some(0), "prose", "")}}

\* C14: once every spawned detection task has completed and been polled, in
\* any completion order and any mode, detection_state = Completed,
\* pending_detections is empty, and available_providers holds, after the
\* providers with an explicit path, exactly the providers whose detection
\* exited with code 0, each once; every poll appends its successes in the
\* order it handled them.
C14_DetectionCompletes ==
    /\ [](((AppRunning /\ detection_state # "NotStarted")
            /\ \A i \in LatestDetections : tasks[i].status = "consumed")
          => /\ detection_state = "Completed"
             /\ pending_detections = {}
             /\ Len(available_providers) = Cardinality({available_providers[k].name :
                                                          k \in DOMAIN available_providers})
             /\ SubSeq(Names(available_providers), 1, Len(PathProviders))
                    = [k \in DOMAIN PathProviders |-> PathProviders[k].display_name]
             /\ {available_providers[k].name :
                    k \in (Len(PathProviders) + 1)..Len(available_providers)}
                  = {tasks[i].pinfo.display_name :
                        i \in {j \in LatestDetections :
                                  tasks[j].outcome.exit_code = Some(0)}})
    /\ [][(DetectionsPolled # {} /\ pending_tasks' # pending_tasks
             /\ detection_state' # "NotStarted" /\ Len(tasks') = Len(tasks))
          => \E order \in Perms(PolledSuccesses) :
                Names(available_providers') = Names(available_providers) \o order]_vars

C14_Witness ==
    /\ AppRunning
    /\ detection_state = "Completed"
    /\ mode = "Help"
    /\ Names(available_providers) = <<"Kiro CLI", "Aider">>
    /\ \A i \in DOMAIN tasks : tasks[i].status = "consumed"
    /\ \E i \in DOMAIN tasks : tasks[i].outcome = ExecError
    /\ \E i \in DOMAIN tasks : tasks[i].outcome = Exited(Some(1), "empty", "boom")

\* C15: execution_state = WaitingForResult exactly when mode = Processing.
C15_WaitingIffProcessing ==
    AppRunning => (execution_state = "WaitingForResult" <=> mode = "Processing")

\* the poll of this step hands the result of prompt task i to its handler
PromptPolled(i) ==
    /\ tasks[i].kind = "prompt"
    /\ tasks[i].status = "finished"
    /\ Len(tasks') = Len(tasks)
    /\ tasks'[i].status = "consumed"

\* C16: a prompt_execution completion delivered in a mode other than
\* Processing changes neither the mode nor the pending changes and hunks.
C16_PromptResultOnlyInProcessing ==
    [][\A i \in DOMAIN tasks :
          (PromptPolled(i) /\ tasks[i].outcome.kind = "exited" /\ mode # "Processing")
              => /\ mode' = mode
                 /\ pending_changes' = pending_changes
                 /\ state_hunks' = state_hunks]_vars

\* C17: a prompt completion with a non-zero exit code in Processing sets the
\* mode to Error, puts the captured stderr into last_error's message, and
\* adds exactly one assistant message with status Error to the chat history.
C17_NonZeroExit ==
    [][\A i \in DOMAIN tasks :
          (/\ PromptPolled(i)
           /\ tasks[i].outcome.kind = "exited"
           /\ tasks[i].outcome.exit_code # None
           /\ tasks[i].outcome.exit_code # Some(0)
           /\ mode = "Processing")
              => /\ mode' = "Error"
                 /\ \E k \in DOMAIN last_error'.message :
                       last_error'.message[k] = tasks[i].outcome.stderr
                 /\ chat_history' = Append(chat_history, ChatMessage(FALSE, "Error"))]_vars

C17_Witness ==
    /\ AppRunning
    /\ mode = "Error"
    /\ execution_state = "Idle"
    /\ last_error = ErrorDisplay("Provider Error",
                                 <<"Command failed (exit ", "1", "): ", "boom">>)
    /\ chat_history = <<ChatMessage(TRUE, "Pending"), ChatMessage(FALSE, "Error")>>

\* C18: a prompt completion that is not a normal exit (execution error, join
\* failure, or exit code absent after a signal) moves Processing to Error.
C18_AbnormalCompletion ==
    [][\A i \in DOMAIN tasks :
          (/\ PromptPolled(i)
           /\ tasks[i].outcome.exit_code = None
           /\ mode = "Processing")
              => mode' = "Error"]_vars

\* C19: a prompt completion with exit code 0 whose output the active
\* provider's parser accepts moves Processing to DiffReview.
C19_ParsedToDiffReview ==
    [][\A i \in DOMAIN tasks :
          (/\ PromptPolled(i)
           /\ tasks[i].outcome.kind = "exited"
           /\ tasks[i].outcome.exit_code = Some(0)
           /\ parse_file_changes(provider, tasks[i].outcome.stdout).ok
           /\ mode = "Processing")
              => mode' = "DiffReview"]_vars

C19_Witness ==
    /\ AppRunning
    /\ mode = "DiffReview"
    /\ pending_changes = ParsedChanges
    /\ provider = create_provider("Claude Code")
    /\ chat_history = <<ChatMessage(TRUE, "Pending"), ChatMessage(FALSE, "Success")>>

\* C20: a prompt completion with exit code 0 whose stdout is empty or holds
\* no interpretable file change moves Processing to Error, not to DiffReview.
C20_NoChangesIsParseFailed ==
    [][\A i \in DOMAIN tasks :
          (/\ PromptPolled(i)
           /\ tasks[i].outcome.kind = "exited"
           /\ tasks[i].outcome.exit_code = Some(0)
           /\ \/ tasks[i].outcome.stdout = "empty"
              \/ parse_file_changes(provider, tasks[i].outcome.stdout).changes = NoChanges
           /\ mode = "Processing")
              => mode' = "Error"]_vars

\* C24: toggling help from any mode M enters Help, and the key that leaves
\* Help returns to M: after "?" in the current mode, every key either stays
\* in Help or goes back to the mode "?" was pressed in.
C24_HelpReturnsToPrevious ==
    Running
        => LET h == handle_key(AppState, "?")
           IN  /\ h.mode = "Help"
               /\ \A key \in AppKeys : handle_key(h, key).mode \in {"Help", mode}

\* C25: in mode Error, any key press moves the mode to PromptEntry and
\* clears last_error.
C25_ErrorAnyKey ==
    (Running /\ mode = "Error")
        => \A key \in AppKeys :
              /\ handle_key(AppState, key).mode = "PromptEntry"
              /\ handle_key(AppState, key).last_error = NoError

\* C26: in PromptEntry with an active provider, submitting a non-empty
\* prompt (Enter) moves the mode to Processing, spawns one prompt task, leaves
\* the tracker holding exactly that prompt task under the prompt id, and
\* sets execution_state = WaitingForResult.
C26_SubmitStartsProcessing ==
    [][(/\ mode = "PromptEntry"
        /\ provider # NoProvider
        /\ prompt_buffer # <<>>
        /\ prompt_buffer' = <<>>
        /\ mode' # "ProviderSelect")
           => /\ mode' = "Processing"
              /\ execution_state' = "WaitingForResult"
              /\ tasks' = Append(tasks, Task(PromptTaskId, "prompt", NoPinfo))
              /\ pending_tasks' = [pending_tasks EXCEPT ![PromptTaskId] = Len(tasks')]]_vars

C26_Witness ==
    /\ mode = "Processing"
    /\ execution_state = "WaitingForResult"
    /\ prompt_buffer = <<>>
    /\ Len(tasks) = 1
    /\ tasks[1].kind = "prompt"
    /\ pending_tasks[PromptTaskId] = 1

\* C27: in PromptEntry, submitting an empty prompt (Enter on an empty
\* buffer) moves the mode to Error with an error display set and spawns no
\* task.
C27_EmptyPromptIsError ==
    (Running /\ mode = "PromptEntry" /\ prompt_buffer = <<>>)
        => LET s == handle_key(AppState, "Enter")
           IN  /\ s.mode = "Error"
               /\ s.last_error # NoError
               /\ s.tasks = tasks

\* the step in which Action::Confirm receives what apply_changes returned
ConfirmReturns(kind) ==
    /\ mode = "Confirmation"
    /\ apc = "returned"
    /\ result.kind = kind
    /\ apc' = "done"

SuccessBanner ==
    ErrorDisplay("Changes Applied Successfully",
                 <<"Files have been updated with the accepted hunks">>)

C28_DistinctTimestamps ==
    \A i, j \in DOMAIN backup_sets :
        i # j => /\ backup_sets[i].timestamp # backup_sets[j].timestamp
                 /\ BackupFilesOf(backup_sets[i]) \cap BackupFilesOf(backup_sets[j]) = {}

\* C29: for any files given to BackupSet::create, also files of different
\* directories with one base name, when create returns every path maps to a
\* readable backup that holds the file's content (so that restore_all brings
\* every file back to its content at create time).
C29_BackupHoldsContent ==
    [][(Len(backup_sets') = Len(backup_sets) + 1)
          => LET set == backup_sets'[Len(backup_sets')]
             IN  \A f \in Paths :
                    set.backups[f] # NoBackup
                        => backupDir'[set.backups[f]] = File(disk[f].data)]_vars

\* the mappings of the backup set being restored
Mapped == {f \in Paths : backup_set.backups[f] # NoBackup}

\* restore_all has visited every mapping and apply has returned
AfterRestore ==
    /\ create_backups
    /\ apc = "returned"
    /\ result.kind = "Err"
    /\ result.message = "Failed to apply hunks"

\* what restore_all returns: Ok(()) when no restore failed, else an error
\* naming the collected paths
restore_all_result ==
    IF restore_errors = {} THEN [ok |-> TRUE, paths |-> {}]
    ELSE [ok |-> FALSE, paths |-> restore_errors]

\* C30: restore_all is best-effort: it visits every mapping even after a
\* failure, every path whose restore succeeded holds its backup content,
\* the error names exactly the paths whose restore failed (a failed restore
\* leaves its file as it was), and it returns ok only if all succeeded.
C30_RestoreBestEffort ==
    /\ []((apc = "restore" \/ AfterRestore)
            => /\ restore_errors \subseteq Mapped \ restore_left
               /\ \A f \in (Mapped \ restore_left) \ restore_errors :
                     disk[f] = File(backupDir[backup_set.backups[f]].data))
    /\ [](AfterRestore
            => /\ restore_left = {}
               /\ restore_all_result.ok
                     => \A f \in Mapped :
                           disk[f] = File(backupDir[backup_set.backups[f]].data)
               /\ ~restore_all_result.ok => restore_all_result.paths # {})
    /\ [][(apc = "restore" /\ restore_left' # restore_left)
            => \E f \in restore_left :
                  /\ restore_left' = restore_left \ {f}
                  /\ \A g \in Paths \ {f} : disk'[g] = disk[g]
                  /\ \/ /\ restore_errors' = restore_errors \cup {f}
                        /\ disk'[f] = disk[f]
                     \/ /\ restore_errors' = restore_errors
                        /\ disk'[f] = File(backupDir[backup_set.backups[f]].data)]_vars

C30_Witness ==
    /\ AfterRestore
    /\ Cardinality(Mapped) >= 2
    /\ restore_errors # {}
    /\ \E f \in Mapped \ restore_errors :
          /\ \E i \in DOMAIN files_modified : files_modified[i] = f
          /\ disk[f] = disk0[f]

\* C31: BackupSet::cleanup is infallible best-effort: it never reports a
\* failure, and failing to remove one backup does not prevent the removal
\* of the rest.
C31_CleanupBestEffort ==
    [][\A i \in DOMAIN backup_sets :
          \A order \in Perms(BackupFilesOf(backup_sets[i])) :
             \A fail \in 0..Len(order) :
                BkCleanup(i, order, fail)
                    => /\ result'.kind = "Ok"
                       /\ \A k \in DOMAIN order :
                             k # fail => ~backupDir'[order[k]].exists]_vars

RECURSIVE HunksOfChanges(_, _)
\* the hunks extract_hunks produces for the changes of the paths from the
\* k-th on, concatenated file by file
HunksOfChanges(changes, k) ==
    IF k > Len(SortedPaths) THEN <<>>
    ELSE LET path == SortedPaths[k]
             c == changes[path]
         IN  (IF c.change_type = "None" THEN <<>>
              ELSE extract_hunks(path, generate_diff(c.original_content,
                                                     c.proposed_content)))
             \o HunksOfChanges(changes, k + 1)

\* C32: when a prompt result is parsed and the mode becomes DiffReview,
\* state.hunks holds for every parsed FileChange exactly the hunks
\* extract_hunks produced for it, all Pending, and pending_changes maps each
\* path to its change, so that at least one hunk can be accepted and applied.
C32_ParsedHunksStored ==
    [][\A i \in DOMAIN tasks :
          (/\ PromptPolled(i)
           /\ tasks[i].outcome.kind = "exited"
           /\ tasks[i].outcome.exit_code = Some(0)
           /\ parse_file_changes(provider, tasks[i].outcome.stdout).ok
           /\ mode' = "DiffReview")
              => LET changes == parse_file_changes(provider, tasks[i].outcome.stdout).changes
                 IN  /\ pending_changes' = changes
                     /\ state_hunks' = HunksOfChanges(changes, 1)
                     /\ \A k \in DOMAIN state_hunks' : state_hunks'[k].status = "Pending"
                     /\ changes # NoChanges => state_hunks' # <<>>]_vars

\* the old (new) line numbers the changes of a hunk carry
LineNums(h, field) ==
    {h.changes[k][field].v : k \in {j \in DOMAIN h.changes : h.changes[j][field].some}}

SetMin(S) == CHOOSE x \in S : \A y \in S : x <= y
SetMax(S) == CHOOSE x \in S : \A y \in S : x >= y

\* C33: for every hunk extract_hunks returns, start_line is the smallest
\* old_line_num among the hunk's changes (0 if it has none) and end_line is
\* the largest new_line_num among them.
C33_HunkLineRange ==
    dpc # "input"
        => \A i \in DOMAIN hunks :
              LET olds == LineNums(hunks[i], "old_line_num")
                  news == LineNums(hunks[i], "new_line_num")
              IN  /\ hunks[i].start_line = (IF olds = {} THEN 0 ELSE SetMin(olds))
                  /\ news # {} => hunks[i].end_line = SetMax(news)

\* the texts are three lines each and differ in the second line only
SecondLineReplaced ==
    \E ls, ms \in [1..3 -> LineAlphabet] :
        /\ ls[1] = ms[1]
        /\ ls[2] # ms[2]
        /\ ls[3] = ms[3]
        /\ original = JoinLines(ls)
        /\ proposed = JoinLines(ms)

\* the changes of a hunk with a tag
Tagged(h, tag) == SelectSeq(h.changes, LAMBDA c : c.tag = tag)

\* C34: line numbers are 1-based: replacing line 2 of a three-line text
\* yields exactly one hunk, with one Delete whose old_line_num is 2 and one
\* Insert whose new_line_num is 2.
C34_OneBasedLineNumbers ==
    (dpc # "input" /\ SecondLineReplaced)
        => /\ Len(hunks) = 1
           /\ Len(Tagged(hunks[1], "Delete")) = 1
           /\ Len(Tagged(hunks[1], "Insert")) = 1
           /\ Tagged(hunks[1], "Delete")[1].old_line_num = Some(2)
           /\ Tagged(hunks[1], "Insert")[1].new_line_num = Some(2)

\* the lines left after the deletions of hunk h, with the Insert contents
\* of h placed contiguously from index max(0, start_line - 1), clamped to
\* the number of lines
InsertedAtAnchor(lines, h) ==
    LET afterDel == ApplyDeletions(lines, Deletions(h))
        anchor == Min(Max(0, h.start_line - 1), Len(afterDel))
    IN  Take(afterDel, anchor) \o Insertions(h) \o Drop(afterDel, anchor)

\* C35: when an accepted hunk is applied, after its deletions its Insert
\* contents are placed contiguously, in hunk order, from index
\* max(0, start_line - 1) clamped to the current number of lines; so a hunk
\* with start_line = 0 inserts at the top of a non-empty text, and on an
\* empty text yields just the inserted lines.
C35_InsertionAnchor ==
    (dpc = "reconstructed" /\ Len(SelectSeq(hunks, IsAccepted)) = 1)
        => LET h == SelectSeq(hunks, IsAccepted)[1]
           IN  recon = JoinLines(InsertedAtAnchor(StrLines(original), h))

\* C36: while the mode is Processing no key other than the quit signal
\* changes the mode or starts another prompt: Processing is left only
\* through the completion of the prompt task.
C36_ProcessingNotInterrupted ==
    (AppRunning /\ mode = "Processing")
        => \A key \in AppKeys :
              /\ handle_key(AppState, key).mode = "Processing"
              /\ handle_key(AppState, key).tasks = tasks

\* the prompt tasks whose subprocess has not finished
PromptsInFlight == {i \in DOMAIN tasks : tasks[i].kind = "prompt" /\ tasks[i].status = "running"}

\* C37: a task is never spawned under an id that is still tracked
\* (execute_prompt under prompt_execution, start_provider_detection under a
\* detect_<provider> id), so at most one prompt subprocess is in flight and
\* no tracked handle is overwritten.
C37_NoSpawnUnderTrackedId ==
    /\ [](AppRunning => Cardinality(PromptsInFlight) <= 1)
    /\ [][\A k \in DOMAIN tasks' :
             k > Len(tasks) => pending_tasks[tasks'[k].id] = 0]_vars

\* C38: for a path whose FileChange is a Create, apply treats the original
\* as empty and never needs the target to exist: applying accepted hunks of
\* a Create change to a path that does not exist succeeds and creates the
\* file with the reconstructed content, whether create_backups is false or
\* true.
C38_CreateNeedsNoTarget ==
    (/\ Returned
     /\ faults = 0
     /\ AcceptedPaths # {}
     /\ \A f \in AcceptedPaths : IsCreate(f) /\ ~disk0[f].exists)
        => /\ result.kind = "Ok"
           /\ \A f \in AcceptedPaths : disk[f] = ExpectedFile(f)

====
